---- MODULE Spec2Model ----
(***************************************************************************)
(* A model of the Chilena kernel's process/execution substrate: the        *)
(* process table, the syscall gate with its user-pointer validation, the   *)
(* single-slot IPC mailboxes, process creation and termination, the frame  *)
(* allocator and the timer interrupt that drives the scheduler.            *)
(*                                                                         *)
(* The machine has one CPU.  `pc` is what that CPU is executing: "run" is  *)
(* code outside the kernel's syscall layer (ring 3, or the ring-0 shell of *)
(* pid 0); every other value is a place inside a syscall.  Syscalls run    *)
(* with interrupts enabled (idt.rs:267), so the timer interrupt may arrive *)
(* between any two steps of a syscall, also while the process-table lock   *)
(* is held.  The timer handler itself runs with interrupts disabled and is *)
(* one atomic step.                                                        *)
(***************************************************************************)
EXTENDS Integers, Sequences, FiniteSets, TLC

(***************************************************************************)
(* Program constants                                                       *)
(***************************************************************************)
MAX_PROCS == 8
MAX_PROC_MEM == 10485760
USER_BASE == 8388608
PAGE_SIZE == 4096
MSG_PAYLOAD == 64
MSG_SIZE == 80
RETRY_LIMIT == 1000
SCHED_INTERVAL == 10
MAX_HANDLES == 64

\* Syscall numbers (sys/syscall/number.rs)
EXIT == 1
SPAWN == 2
READ == 3
WRITE == 4
OPEN == 5
CLOSE == 6
STAT == 7
DUP == 8
REMOVE == 9
POLL == 12
KIND == 15
SEND == 16
RECV == 17

\* ExitCode::ExecError and ExitCode::NotFound as usize
ExecError == 4
NotFound == 2

(***************************************************************************)
(* Bounds of the model                                                     *)
(***************************************************************************)
\* usize/u64 are modelled as WORD_BITS-bit words, so that ptr + len can
\* overflow inside the integers the model checker has.  The user window
\* [USER_BASE, USER_END] lies below 2^27.
WORD_BITS == 28
\* Number of physical frames the bitmap allocator tracks.
N_FRAMES == 36
\* Frames the kernel heap took at boot (heap.rs:33-41).
HEAP_FRAMES == 2
\* NEXT_PID never exceeds this in the model (spawns stop there).
MAX_NEXT_PID == 8
\* SEND and RECV syscalls issued in one run of the model.
MAX_IPC == 2

WORD == 2 ^ WORD_BITS
USIZE_MAX == WORD - 1
USER_END == USER_BASE + (MAX_PROCS - 1) * MAX_PROC_MEM
KERNEL_PT == 0 - 1

Pids == 0 .. (MAX_PROCS - 1)
Frames == 0 .. (N_FRAMES - 1)

Min(a, b) == IF a < b THEN a ELSE b

(***************************************************************************)
(* sys/syscall/mod.rs: user-pointer validation                             *)
(***************************************************************************)
\* u64::checked_add: None on overflow of the word.
CheckedAddOverflows(a, b) == a + b > USIZE_MAX

\* validate_user_ptr with the upper edge of the window excluded.
validate_user_ptr_strict(ptr, len) ==
    IF len = 0 THEN TRUE
    ELSE IF CheckedAddOverflows(ptr, len) THEN FALSE
    ELSE ptr >= USER_BASE /\ ptr + len < USER_END

validate_user_ptr(ptr, len) ==
    IF len = 0 THEN TRUE
    ELSE IF CheckedAddOverflows(ptr, len) THEN FALSE
    ELSE ptr >= USER_BASE /\ ptr + len <= USER_END

\* usize::saturating_mul
SaturatingMul(a, b) == IF a > USIZE_MAX \div b THEN USIZE_MAX ELSE a * b

(***************************************************************************)
(* sys/mem/bitmap.rs: the frame allocator, over (bitmap, next_hint)        *)
(***************************************************************************)
\* The offsets i of the cyclic scan at which the bit is clear.
FreeOffsets(bm, hint) == { i \in 0 .. (N_FRAMES - 1) : ~bm[(hint + i) % N_FRAMES] }

SetMin(S) == CHOOSE x \in S : \A y \in S : x <= y

\* allocate_frame that hands the frame out and leaves its bit clear.
allocate_frame_unmarked(bm, hint) ==
    IF FreeOffsets(bm, hint) = {}
    THEN [ok |-> FALSE, frame |-> 0, bitmap |-> bm, hint |-> hint]
    ELSE LET idx == (hint + SetMin(FreeOffsets(bm, hint))) % N_FRAMES
         IN  [ok |-> TRUE, frame |-> idx, bitmap |-> bm, hint |-> idx + 1]

\* allocate_frame that starts its scan one index after the hint.
allocate_frame_skip(bm, hint) ==
    IF FreeOffsets(bm, hint + 1) = {}
    THEN [ok |-> FALSE, frame |-> 0, bitmap |-> bm, hint |-> hint]
    ELSE LET idx == (hint + 1 + SetMin(FreeOffsets(bm, hint + 1))) % N_FRAMES
         IN  [ok |-> TRUE, frame |-> idx,
              bitmap |-> [bm EXCEPT ![idx] = TRUE], hint |-> idx + 1]

\* allocate_frame: [ok, frame, bitmap, hint]; ok = FALSE is Option::None.
allocate_frame(bm, hint) ==
    IF FreeOffsets(bm, hint) = {}
    THEN [ok |-> FALSE, frame |-> 0, bitmap |-> bm, hint |-> hint]
    ELSE LET idx == (hint + SetMin(FreeOffsets(bm, hint))) % N_FRAMES
         IN  [ok |-> TRUE, frame |-> idx,
              bitmap |-> [bm EXCEPT ![idx] = TRUE], hint |-> idx + 1]

\* deallocate_frame: a frame outside every region, or already free, is ignored.
\* deallocate_frame that moves the hint and leaves the bit set.
deallocate_frame_keep(bm, hint, f) ==
    IF f \in Frames /\ bm[f]
    THEN [bitmap |-> bm, hint |-> Min(hint, f)]
    ELSE [bitmap |-> bm, hint |-> hint]

deallocate_frame(bm, hint, f) ==
    IF f \in Frames /\ bm[f]
    THEN [bitmap |-> [bm EXCEPT ![f] = FALSE], hint |-> Min(hint, f)]
    ELSE [bitmap |-> bm, hint |-> hint]

\* MemRegion::new(start, end): the frames from the one that contains start
\* to the one that contains end - 1.
MemRegionNew(start, end) ==
    [first_frame |-> start \div 4096,
     frame_count |-> ((end - 1) \div 4096) - (start \div 4096) + 1]

MAX_REGIONS == 32

RECURSIVE SumFrames(_)
SumFrames(map) ==
    IF map = << >> THEN 0
    ELSE ((Head(map).end - Head(map).start) \div 4096) + SumFrames(Tail(map))

BitmapBytes(map) == ((SumFrames(map) + 63) \div 64) * 8

\* The loop of build over the usable regions of the memory map, from
\* region i on; a is the allocator so far.
RECURSIVE BuildLoop(_, _, _)
BuildLoop(map, i, a) ==
    IF i > Len(map) THEN a
    ELSE LET rstart == map[i].start
             rend   == map[i].end
             place  == ~a.placed /\ rend - rstart >= a.bitmap_bytes
             b      == IF place
                       THEN [a EXCEPT !.placed = TRUE, !.bitmap_start = rstart]
                       ELSE a
             ustart == IF place THEN rstart + a.bitmap_bytes ELSE rstart
         IN  IF place /\ ustart >= rend THEN BuildLoop(map, i + 1, b)
             ELSE IF rend - ustart < 4096 THEN BuildLoop(map, i + 1, b)
             ELSE IF Len(b.regions) >= MAX_REGIONS THEN b
             ELSE BuildLoop(map, i + 1,
                      [b EXCEPT !.regions = Append(@, MemRegionNew(ustart, rend)),
                                !.n_frames = @ + MemRegionNew(ustart, rend).frame_count])

\* BitmapAllocator::build on the usable regions of a memory map.
build(map) ==
    LET a == BuildLoop(map, 1, [placed |-> FALSE, bitmap_start |-> 0,
                                bitmap_bytes |-> BitmapBytes(map),
                                regions |-> << >>, n_frames |-> 0])
    IN  [built |-> TRUE, map |-> map, placed |-> a.placed,
         bitmap_start |-> a.bitmap_start, bitmap_bytes |-> a.bitmap_bytes,
         regions |-> a.regions, n_frames |-> a.n_frames]

\* The memory map before build has run.
Unbuilt(map) ==
    [built |-> FALSE, map |-> map, placed |-> FALSE, bitmap_start |-> 0,
     bitmap_bytes |-> 0, regions |-> << >>, n_frames |-> 0]

\* The one usable region the other specifications boot on.
BootMap == << [start |-> 0, end |-> N_FRAMES * 4096] >>

(***************************************************************************)
(* sys/mem/paging.rs: map_page / unmap_page over the user mappings.        *)
(* A mapping is [va |-> page address, frame |-> frame].  create() copies   *)
(* every top-level entry of the active table into the new one              *)
(* (process.rs:419-421), so the tables below the entry that covers the     *)
(* user window are one tree shared by all roots: the model keeps one set   *)
(* of user mappings.                                                       *)
(***************************************************************************)
PageOf(addr) == (addr \div PAGE_SIZE) * PAGE_SIZE

\* usize::saturating_sub(1)
SatSub1(n) == IF n = 0 THEN 0 ELSE n - 1

IsMapped(um, va) == \E m \in um : m.va = va

\* The loop of map_page over pages first..last (page addresses):
\* [ok, bitmap, hint, umap].  A frame is taken before map_to is tried, so a
\* page that is already mapped fails with its frame still allocated.
RECURSIVE MapLoop(_, _, _, _, _)
MapLoop(bm, hint, um, first, last) ==
    IF first > last THEN [ok |-> TRUE, bitmap |-> bm, hint |-> hint, umap |-> um]
    ELSE LET a == allocate_frame(bm, hint)
         IN  IF ~a.ok
             THEN [ok |-> FALSE, bitmap |-> bm, hint |-> hint, umap |-> um]
             ELSE IF IsMapped(um, first)
             THEN [ok |-> FALSE, bitmap |-> a.bitmap, hint |-> a.hint, umap |-> um]
             ELSE MapLoop(a.bitmap, a.hint,
                          um \cup {[va |-> first, frame |-> a.frame]},
                          first + PAGE_SIZE, last)

map_page(bm, hint, um, addr, count) ==
    MapLoop(bm, hint, um, PageOf(addr), PageOf(addr + SatSub1(count)))

\* The loop of unmap_page: every mapped page of the range is unmapped and
\* its frame returned.  [bitmap, hint, umap]
RECURSIVE FreeAll(_, _, _)
FreeAll(bm, hint, ms) ==
    IF ms = {} THEN [bitmap |-> bm, hint |-> hint]
    ELSE LET m == CHOOSE x \in ms : \A y \in ms : x.va <= y.va
             d == deallocate_frame(bm, hint, m.frame)
         IN  FreeAll(d.bitmap, d.hint, ms \ {m})

unmap_page(bm, hint, um, addr, size) ==
    LET first == PageOf(addr)
        last  == PageOf(addr + SatSub1(size))
        gone  == { m \in um : first <= m.va /\ m.va <= last }
        f     == FreeAll(bm, hint, gone)
    IN  [bitmap |-> f.bitmap, hint |-> f.hint, umap |-> um \ gone]

(***************************************************************************)
(* State                                                                   *)
(***************************************************************************)
VARIABLES
    table,          \* PROC_TABLE: slot -> process record
    CURRENT_PID,    \* process.rs:53
    NEXT_PID,       \* process.rs:54
    ACTIVE_PROCS,   \* process.rs:57
    TICK,           \* sched.rs:27, kept modulo SCHED_INTERVAL
    cr3,            \* the page-table root in the control register
    bitmap,         \* frame allocator: frame -> used
    next_hint,      \* frame allocator: the next-fit hint
    user_map,       \* the user-accessible mappings
    ptLock,         \* PROC_TABLE's RwLock: [writer, readers]
    irqLock,        \* IRQ_HANDLERS' mutex is held
    picBusy,        \* IRQ 0 is in service at the PIC (no end-of-interrupt yet)
    pc,             \* what the CPU executes
    k,              \* the locals of the syscall in progress
    frame,          \* the live interrupt frame: [owner, rip]
    regs,           \* the live register file: [owner, rax]
    derefs,         \* the user (ptr, len) pairs the current syscall has dereferenced
    last,           \* the syscall that completed last: [n, pid, ret, how]
    sent,           \* history: per receiver, the sends that deposited a message
    got,            \* history: per receiver, the messages recv handed out
    nsys,           \* history: number of IPC syscalls issued (bounds the model)
    spawner,        \* history: slot -> the process that was running when it was filled
    held,           \* history: the frames AllocFrame handed out and FreeFrame has not taken back
    irqs,           \* history: [since, ndec, via]: timer interrupts since the last one
                    \* that considered a scheduling decision (-1 before the first), the
                    \* decisions considered in the latest interrupt, and the iretq that
                    \* ended it ("isr": irq0's own, "switch_to": the one in switch_to)
    captured,       \* history: slot -> the frame and registers syscall_handler saved at
                    \* the entry of the SPAWN that filled it (<< >> before that)
    layout,         \* what BitmapAllocator::build made of the memory map: [built, map,
                    \* placed, bitmap_start, bitmap_bytes, regions, n_frames]
    args_pt,        \* history: slot -> the root of the page table exec's mapper was
                    \* built on when it mapped the argument pages of that slot
    parked          \* slot -> the syscall path schedule interrupted when it saved a
                    \* ring-0 frame for the slot: [pc, k] (<< >> for a user frame)

vars == << table, CURRENT_PID, NEXT_PID, ACTIVE_PROCS, TICK, cr3, bitmap,
           next_hint, user_map, ptLock, irqLock, picBusy, pc, k, frame, regs,
           derefs, last, sent, got, nsys, spawner, held, irqs, captured, layout, args_pt, parked >>

\* The groups of variables an action may leave alone.
procVars  == << table, CURRENT_PID, NEXT_PID, ACTIVE_PROCS >>
memVars   == << cr3, bitmap, next_hint, user_map >>
irqVars   == << TICK, irqLock, picBusy >>
ipcHist   == << sent, got >>

(***************************************************************************)
(* sys/ipc.rs: BlockState and Message                                      *)
(***************************************************************************)
Running          == [st |-> "Running", target |-> 0]
WaitingSend(t)   == [st |-> "WaitingSend", target |-> t]
WaitingRecv      == [st |-> "WaitingRecv", target |-> 0]

ZeroPayload == [i \in 1 .. MSG_PAYLOAD |-> 0]

\* The byte at index i (from 1) of the user buffer a process passes to SEND:
\* the model's user buffers hold the bytes fill, fill+1, ... (never 0).
UserByte(fill, i) == 1 + ((fill + i) % 255)

(***************************************************************************)
(* sys/process.rs: the process record                                      *)
(***************************************************************************)
\* CpuRegisters::default()
ZERO_REGS == [owner |-> 0 - 1, rax |-> 0]

\* ProcData::new: the handle table as a function from the bound handle
\* numbers to what they are bound to; a number outside the domain is None.
StdHandles == [h \in 0 .. 3 |-> IF h < 3 THEN "console" ELSE "null"]

\* Process::new(): pt_frame is whatever the control register holds when the
\* record is built.  Option values are sequences of length 0 or 1.
ProcessNew(cr) ==
    [ id |-> 0, parent_id |-> 0, code_base |-> 0, stack_base |-> 0,
      entry_point |-> 0, pt_frame |-> cr, stack_frame |-> << >>,
      saved_regs |-> ZERO_REGS, mailbox |-> << >>, block |-> Running,
      handles |-> StdHandles ]

\* The locals of a syscall, all in one record.
K0 == [ pid |-> 0, target |-> 0, kind |-> 0, payload |-> ZeroPayload, len |-> 0,
        fill |-> 0, retries |-> 0, parent_id |-> 0, pt_frame |-> 0,
        code_base |-> 0, code |-> 0, slot |-> 0, a3 |-> 0, a4 |-> 0, argbytes |-> 0,
        bin |-> [magic |-> "none", len |-> 0, parsed |-> FALSE, seg_addr |-> 0,
                 seg_size |-> 0, entry |-> 0],
        ctx |-> << >> ]

NoLast == [n |-> 0, pid |-> 0, ret |-> 0, how |-> "none", ptr |-> 0, len |-> 0]

LockFree == [writer |-> FALSE, readers |-> 0]

\* The frame allocator once the boot path has taken the first n frames.
InitFrames(n) ==
    /\ bitmap = [f \in Frames |-> f < n]
    /\ next_hint = n
    /\ held = { f \in Frames : f < n }
    /\ layout = build(BootMap)

\* Everything but the frame allocator; t is the value of TICK when clk::init
\* registers tick as the handler of IRQ 0.
InitBoot(t) ==
    /\ table = [p \in Pids |-> ProcessNew(KERNEL_PT)]
    /\ CURRENT_PID = 0
    /\ NEXT_PID = 1
    /\ ACTIVE_PROCS = 0
    /\ TICK = t
    /\ cr3 = KERNEL_PT
    /\ user_map = {}
    /\ ptLock = LockFree
    /\ irqLock = FALSE
    /\ picBusy = FALSE
    /\ pc = "run"
    /\ k = K0
    /\ frame = [owner |-> 0, rip |-> "user"]
    /\ regs = [owner |-> 0, rax |-> 0]
    /\ derefs = {}
    /\ last = NoLast
    /\ sent = [p \in Pids |-> << >>]
    /\ got = [p \in Pids |-> << >>]
    /\ nsys = 0
    /\ spawner = [p \in Pids |-> 0 - 1]
    /\ irqs = [since |-> 0 - 1, ndec |-> 0, via |-> "none"]
    /\ captured = [p \in Pids |-> << >>]
    /\ args_pt = [p \in Pids |-> << >>]
    /\ parked = [p \in Pids |-> << >>]

\* No timer interrupt arrives between pic::init, which enables interrupts,
\* and clk::init, which registers tick: TICK is still 0.
InitKernel == InitBoot(0)

Init == InitKernel /\ InitFrames(HEAP_FRAMES)

\* spin::RwLock: read() waits while a writer holds the lock; write() waits
\* while anyone holds it.
CanRead  == ~ptLock.writer
CanWrite == ~ptLock.writer /\ ptLock.readers = 0
ReadLocked   == [ptLock EXCEPT !.readers = @ + 1]
ReadUnlocked == [ptLock EXCEPT !.readers = @ - 1]
WriteLocked   == [ptLock EXCEPT !.writer = TRUE]
WriteUnlocked == [ptLock EXCEPT !.writer = FALSE]

\* A syscall returns: syscall_handler writes the result to the saved rax
\* (idt.rs:327) and the entry stub returns from the interrupt.
ReturnV(n, pid, ret, how, ptr, len) ==
    /\ pc' = "run"
    /\ k' = K0
    /\ regs' = [regs EXCEPT !.rax = ret]
    /\ last' = [n |-> n, pid |-> pid, ret |-> ret, how |-> how, ptr |-> ptr,
                len |-> len]

Return(n, pid, ret, how) == ReturnV(n, pid, ret, how, 0, 0)

(***************************************************************************)
(* sys/process.rs: address helpers                                         *)
(***************************************************************************)
code_base == table[CURRENT_PID].code_base

\* resolve_addr: an address below the caller's code base is taken as an
\* offset from it.
resolve_addr(addr) == IF addr < code_base THEN (code_base + addr) % WORD ELSE addr

Deref(ptr, len) == [ptr |-> ptr, len |-> len, addr |-> resolve_addr(ptr)]

(***************************************************************************)
(* sys/ipc.rs: send                                                        *)
(***************************************************************************)
\* BuildPayload that copies MSG_PAYLOAD bytes whatever the length of data.
BuildPayload_whole(len, fill) == [i \in 1 .. MSG_PAYLOAD |-> UserByte(fill, i)]

\* The payload send builds: zeroes, then the first copy_len bytes of data.
BuildPayload(len, fill) ==
    LET copy_len == Min(len, MSG_PAYLOAD)
    IN  [i \in 1 .. MSG_PAYLOAD |-> IF i <= copy_len THEN UserByte(fill, i) ELSE 0]

\* BadTarget without the test for a free slot.
BadTarget_range(target_pid) == target_pid >= MAX_PROCS

\* The target check at the head of send.
BadTarget(target_pid) ==
    target_pid >= MAX_PROCS \/ (table[target_pid].id = 0 /\ target_pid # 0)

\* dispatch SEND (syscall/mod.rs:147-159) up to the call of send, and send's
\* first line: a1 = target, a2 = kind, (a3, a4) = data; fill names the bytes
\* the buffer holds.
SysSend(a1, a2, a3, a4, fill) ==
    /\ pc = "run"
    /\ nsys' = nsys + 1
    /\ UNCHANGED << spawner, held, irqs, captured, layout, args_pt, parked >>
    /\ IF ~validate_user_ptr(a3, a4)
       THEN /\ Return(SEND, CURRENT_PID, USIZE_MAX, "badptr")
            /\ derefs' = {}
       ELSE /\ pc' = "send_check"
            /\ k' = [K0 EXCEPT !.pid = CURRENT_PID, !.target = a1, !.kind = a2,
                               !.len = a4, !.fill = fill]
            /\ derefs' = {Deref(a3, a4)}
            /\ last' = NoLast
            /\ UNCHANGED regs
    /\ UNCHANGED << procVars, memVars, irqVars, ptLock, frame, ipcHist >>

SendCheckLock ==
    /\ pc = "send_check"
    /\ CanRead
    /\ ptLock' = ReadLocked
    /\ pc' = "send_check_locked"
    /\ UNCHANGED << procVars, memVars, irqVars, k, frame, regs, derefs, last,
                    ipcHist, nsys, spawner, held, irqs, captured, layout, args_pt, parked >>

SendCheck ==
    /\ pc = "send_check_locked"
    /\ ptLock' = ReadUnlocked
    /\ IF BadTarget(k.target)
       THEN Return(SEND, k.pid, USIZE_MAX, "notarget")
       ELSE /\ pc' = "send_loop"
            /\ k' = [k EXCEPT !.payload = BuildPayload(k.len, k.fill)]
            /\ UNCHANGED << regs, last >>
    /\ UNCHANGED << procVars, memVars, irqVars, frame, derefs, ipcHist, nsys, spawner, held, irqs, captured, layout, args_pt, parked >>

SendLock ==
    /\ pc = "send_loop"
    /\ CanWrite
    /\ ptLock' = WriteLocked
    /\ pc' = "send_locked"
    /\ UNCHANGED << procVars, memVars, irqVars, k, frame, regs, derefs, last,
                    ipcHist, nsys, spawner, held, irqs, captured, layout, args_pt, parked >>

\* SendDeposit that leaves the target's block state as it is.
SendDeposit_noWake ==
    LET msg == [sender |-> k.pid, kind |-> k.kind, data |-> k.payload]
    IN  /\ table' = [table EXCEPT ![k.target].mailbox = << msg >>,
                                  ![k.pid].block = Running]
        /\ sent' = [sent EXCEPT ![k.target] =
                        Append(@, [sender |-> CURRENT_PID, kind |-> k.kind,
                                   len |-> k.len, fill |-> k.fill])]
        /\ Return(SEND, k.pid, 0, "sent")

\* One pass of the loop body under the write lock.
SendDeposit ==
    LET msg == [sender |-> k.pid, kind |-> k.kind, data |-> k.payload]
    IN  /\ table' = [table EXCEPT ![k.target].mailbox = << msg >>,
                                  ![k.target].block = Running,
                                  ![k.pid].block = Running]
        /\ sent' = [sent EXCEPT ![k.target] =
                        Append(@, [sender |-> CURRENT_PID, kind |-> k.kind,
                                   len |-> k.len, fill |-> k.fill])]
        /\ Return(SEND, k.pid, 0, "sent")

\* SendTry that deposits without looking at the mailbox.
SendTry_overwrite ==
    /\ pc = "send_locked"
    /\ ptLock' = WriteUnlocked
    /\ SendDeposit
    /\ UNCHANGED << CURRENT_PID, NEXT_PID, ACTIVE_PROCS, memVars, irqVars,
                    frame, derefs, got, nsys, spawner, held, irqs, captured, layout, args_pt, parked >>

\* SendTry that gives up without clearing the sender's block state.
SendTry_stayBlocked ==
    /\ pc = "send_locked"
    /\ ptLock' = WriteUnlocked
    /\ IF table[k.target].mailbox = << >>
       THEN SendDeposit
       ELSE IF k.retries + 1 > RETRY_LIMIT
       THEN /\ Return(SEND, k.pid, USIZE_MAX, "timeout")
            /\ UNCHANGED << table, sent >>
       ELSE /\ table' = [table EXCEPT ![k.pid].block = WaitingSend(k.target)]
            /\ pc' = "send_hlt"
            /\ k' = [k EXCEPT !.retries = @ + 1]
            /\ UNCHANGED << regs, last, sent >>
    /\ UNCHANGED << CURRENT_PID, NEXT_PID, ACTIVE_PROCS, memVars, irqVars,
                    frame, derefs, got, nsys, spawner, held, irqs, captured, layout, args_pt, parked >>

SendTry ==
    /\ pc = "send_locked"
    /\ ptLock' = WriteUnlocked
    /\ IF table[k.target].mailbox = << >>
       THEN SendDeposit
       ELSE IF k.retries + 1 > RETRY_LIMIT
       THEN /\ table' = [table EXCEPT ![k.pid].block = Running]
            /\ Return(SEND, k.pid, USIZE_MAX, "timeout")
            /\ UNCHANGED sent
       ELSE /\ table' = [table EXCEPT ![k.pid].block = WaitingSend(k.target)]
            /\ pc' = "send_hlt"
            /\ k' = [k EXCEPT !.retries = @ + 1]
            /\ UNCHANGED << regs, last, sent >>
    /\ UNCHANGED << CURRENT_PID, NEXT_PID, ACTIVE_PROCS, memVars, irqVars,
                    frame, derefs, got, nsys, spawner, held, irqs, captured, layout, args_pt, parked >>

(***************************************************************************)
(* sys/ipc.rs: recv                                                        *)
(***************************************************************************)
\* dispatch RECV (syscall/mod.rs:161-170) and recv's first line.
SysRecv(a1) ==
    /\ pc = "run"
    /\ nsys' = nsys + 1
    /\ UNCHANGED << spawner, held, irqs, captured, layout, args_pt, parked >>
    /\ IF ~validate_user_ptr(a1, MSG_SIZE)
       THEN /\ Return(RECV, CURRENT_PID, USIZE_MAX, "badptr")
            /\ derefs' = {}
       ELSE /\ pc' = "recv_loop"
            /\ k' = [K0 EXCEPT !.pid = CURRENT_PID]
            /\ derefs' = {Deref(a1, MSG_SIZE)}
            /\ last' = NoLast
            /\ UNCHANGED regs
    /\ UNCHANGED << procVars, memVars, irqVars, ptLock, frame, ipcHist >>

RecvLock ==
    /\ pc = "recv_loop"
    /\ CanWrite
    /\ ptLock' = WriteLocked
    /\ pc' = "recv_locked"
    /\ UNCHANGED << procVars, memVars, irqVars, k, frame, regs, derefs, last,
                    ipcHist, nsys, spawner, held, irqs, captured, layout, args_pt, parked >>

\* mailbox.take() hands the message out and leaves None.
RecvTake ==
    /\ table' = [table EXCEPT ![k.pid].mailbox = << >>,
                              ![k.pid].block = Running]
    /\ got' = [got EXCEPT ![k.pid] = Append(@, table[k.pid].mailbox[1])]
    /\ Return(RECV, k.pid, 0, "received")

RecvTry ==
    /\ pc = "recv_locked"
    /\ ptLock' = WriteUnlocked
    /\ IF table[k.pid].mailbox # << >>
       THEN RecvTake
       ELSE /\ table' = [table EXCEPT ![k.pid].block = WaitingRecv]
            /\ pc' = "recv_hlt"
            /\ UNCHANGED << k, regs, last, got >>
    /\ UNCHANGED << CURRENT_PID, NEXT_PID, ACTIVE_PROCS, memVars, irqVars,
                    frame, derefs, sent, nsys, spawner, held, irqs, captured, layout, args_pt, parked >>

\* hlt returns after the next interrupt that is handled and returned from.
AfterHlt(p) ==
    CASE p = "send_hlt" -> "send_loop"
      [] p = "recv_hlt" -> "recv_loop"
      [] OTHER -> p

(***************************************************************************)
(* sys/process.rs: spawn                                                   *)
(***************************************************************************)
\* What the file system hands to Process::spawn for a path.
Absent == [magic |-> "absent", len |-> 0, parsed |-> FALSE, seg_addr |-> 0,
           seg_size |-> 0, entry |-> 0]

NoMagic(n) == [magic |-> "none", len |-> n, parsed |-> FALSE, seg_addr |-> 0,
               seg_size |-> 0, entry |-> 0]

FlatBin(n) == [magic |-> "BIN", len |-> n, parsed |-> FALSE, seg_addr |-> 0,
               seg_size |-> 0, entry |-> 0]

ElfBin(ok, addr, size, entry) ==
    [magic |-> "ELF", len |-> size + MSG_PAYLOAD, parsed |-> ok, seg_addr |-> addr,
     seg_size |-> size, entry |-> entry]

\* The two magic numbers create knows.
ELF_MAGIC == << 127, 69, 76, 70 >>
BIN_MAGIC == << 127, 67, 72, 78 >>

\* bin.get(0..4): the first four bytes, or nothing when there are fewer.
Get04(bytes) == IF Len(bytes) >= 4 THEN SubSeq(bytes, 1, 4) ELSE << >>

\* The branch the two comparisons of create select.
MagicOf(bytes) ==
    IF Get04(bytes) = ELF_MAGIC THEN "ELF"
    ELSE IF Get04(bytes) = BIN_MAGIC THEN "BIN"
    ELSE "none"

\* A file given byte by byte; object::File::parse rejects a file that is no
\* longer than its magic number.
RawBin(bytes) == [magic |-> MagicOf(bytes), len |-> Len(bytes), parsed |-> FALSE,
                  seg_addr |-> 0, seg_size |-> 0, entry |-> 0]

FreeSlots == { i \in 1 .. (MAX_PROCS - 1) : table[i].id = 0 }

\* find_free_slot that starts its scan at slot 0.
find_free_slot_zero == SetMin({ i \in 0 .. (MAX_PROCS - 1) : table[i].id = 0 })

find_free_slot == IF FreeSlots = {} THEN 0 - 1 ELSE SetMin(FreeSlots)

FreeBases ==
    { USER_BASE + s * MAX_PROC_MEM : s \in
        { s \in 0 .. (MAX_PROCS - 2) :
            \A i \in 1 .. (MAX_PROCS - 1) :
                ~(table[i].id # 0 /\ table[i].code_base = USER_BASE + s * MAX_PROC_MEM) } }

\* find_free_code_base with candidates half a slot apart.
find_free_code_base_half ==
    SetMin({ USER_BASE + s * (MAX_PROC_MEM \div 2) : s \in
               { s \in 0 .. (MAX_PROCS - 2) :
                   \A i \in 1 .. (MAX_PROCS - 1) :
                       ~(table[i].id # 0 /\
                         table[i].code_base = USER_BASE + s * (MAX_PROC_MEM \div 2)) } })

find_free_code_base == IF FreeBases = {} THEN 0 - 1 ELSE SetMin(FreeBases)

\* syscall_handler's context save for SPAWN followed by dispatch SPAWN and
\* service::spawn up to the call of Process::spawn.
SysSpawn(a1, a2, a3, a4, file) ==
    /\ pc = "run"
    /\ UNCHANGED << CURRENT_PID, NEXT_PID, ACTIVE_PROCS, memVars, irqVars, ptLock,
                    frame, ipcHist, nsys, spawner, held, irqs, captured, layout, args_pt, parked >>
    /\ IF ~CanWrite
       THEN /\ pc' = "spin"
            /\ UNCHANGED << table, k, regs, derefs, last >>
       ELSE /\ table' = [table EXCEPT
                            ![CURRENT_PID].stack_frame = << frame >>,
                            ![CURRENT_PID].saved_regs =
                                [owner |-> CURRENT_PID, rax |-> SPAWN]]
            /\ IF ~validate_user_ptr(a1, a2)
               THEN /\ Return(SPAWN, CURRENT_PID, USIZE_MAX, "badptr")
                    /\ derefs' = {}
               ELSE /\ derefs' = {Deref(a1, a2)}
                    /\ IF file.magic = "absent"
                       THEN Return(SPAWN, CURRENT_PID, NotFound, "nofile")
                       ELSE /\ pc' = "create"
                            /\ k' = [K0 EXCEPT !.pid = CURRENT_PID, !.a3 = a3,
                                               !.a4 = a4, !.bin = file,
                                               !.ctx = << [frame |-> frame,
                                                           regs |-> [owner |-> CURRENT_PID,
                                                                     rax |-> SPAWN]] >>]
                            /\ last' = NoLast
                            /\ UNCHANGED regs

\* LoadBinary that lets a file of unknown magic through with nothing loaded.
LoadBinary_any(bm, hint, um, base, bin) ==
    IF bin.magic = "ELF"
    THEN IF bin.parsed
         THEN map_page(bm, hint, um, base + bin.seg_addr, bin.seg_size)
         ELSE [ok |-> TRUE, bitmap |-> bm, hint |-> hint, umap |-> um]
    ELSE IF bin.magic = "BIN"
    THEN map_page(bm, hint, um, base, bin.len - 4)
    ELSE [ok |-> TRUE, bitmap |-> bm, hint |-> hint, umap |-> um]

\* The loading branch of create: [ok, bitmap, hint, umap].
LoadBinary(bm, hint, um, base, bin) ==
    IF bin.magic = "ELF"
    THEN IF bin.parsed
         THEN map_page(bm, hint, um, base + bin.seg_addr, bin.seg_size)
         ELSE [ok |-> TRUE, bitmap |-> bm, hint |-> hint, umap |-> um]
    ELSE IF bin.magic = "BIN"
    THEN map_page(bm, hint, um, base, bin.len - 4)
    ELSE [ok |-> FALSE, bitmap |-> bm, hint |-> hint, umap |-> um]

\* Process::create, called from Process::spawn.
Create ==
    /\ pc = "create"
    /\ UNCHANGED << CURRENT_PID, cr3, irqVars, ptLock, frame, derefs, ipcHist, nsys >>
    /\ IF ~CanRead
       THEN /\ pc' = "spin"
            /\ UNCHANGED << table, NEXT_PID, ACTIVE_PROCS, bitmap, next_hint,
                            user_map, k, regs, last >>
       ELSE IF find_free_slot < 0 \/ find_free_code_base < 0
       THEN /\ Return(SPAWN, k.pid, ExecError, "nocreate")
            /\ UNCHANGED << table, NEXT_PID, ACTIVE_PROCS, bitmap, next_hint, user_map >>
       ELSE LET slot == find_free_slot
                base == find_free_code_base
                pt   == allocate_frame(bitmap, next_hint)
                ld   == LoadBinary(pt.bitmap, pt.hint, user_map, base, k.bin)
                proc == [ id |-> slot, parent_id |-> table[CURRENT_PID].id,
                          code_base |-> base,
                          stack_base |-> base + MAX_PROC_MEM - PAGE_SIZE,
                          entry_point |-> IF k.bin.magic = "ELF" /\ k.bin.parsed
                                          THEN k.bin.entry ELSE 0,
                          pt_frame |-> pt.frame, stack_frame |-> << >>,
                          saved_regs |-> ZERO_REGS, mailbox |-> << >>,
                          block |-> Running,
                          handles |-> table[CURRENT_PID].handles ]
            IN  IF ~pt.ok
                THEN /\ pc' = "panic"
                     /\ UNCHANGED << table, NEXT_PID, ACTIVE_PROCS, bitmap,
                                     next_hint, user_map, k, regs, last >>
                ELSE /\ bitmap' = ld.bitmap
                     /\ next_hint' = ld.hint
                     /\ user_map' = ld.umap
                     /\ IF ~ld.ok
                        THEN /\ Return(SPAWN, k.pid, ExecError, "noload")
                             /\ UNCHANGED << table, NEXT_PID, ACTIVE_PROCS >>
                        ELSE IF ~CanWrite
                        THEN /\ pc' = "spin"
                             /\ UNCHANGED << table, NEXT_PID, ACTIVE_PROCS, k,
                                             regs, last >>
                        ELSE /\ table' = [table EXCEPT ![slot] = proc]
                             /\ NEXT_PID' = NEXT_PID + 1
                             /\ ACTIVE_PROCS' = ACTIVE_PROCS + 1
                             /\ pc' = "exec"
                             /\ k' = [k EXCEPT !.slot = slot]
                             /\ UNCHANGED << regs, last >>
    /\ spawner' = IF pc' = "exec"
                  THEN [spawner EXCEPT ![k'.slot] = CURRENT_PID] ELSE spawner
    /\ captured' = IF pc' = "exec"
                   THEN [captured EXCEPT ![k'.slot] = k.ctx] ELSE captured
    /\ UNCHANGED << layout, args_pt, parked >>
    /\ UNCHANGED << held, irqs >>

\* page_table(): the table at the pt_frame of the slot CURRENT_PID names.
page_table == table[CURRENT_PID].pt_frame

\* Process::exec on the new entry.  n is the number of string bytes the
\* argv slice names.
Exec(n) ==
    /\ pc = "exec"
    /\ (k.a4 = 0) => (n = 0)
    /\ UNCHANGED << table, NEXT_PID, ACTIVE_PROCS, irqVars, ptLock, ipcHist, nsys, spawner, held, irqs, captured, layout, parked >>
    /\ IF ~CanRead
       THEN /\ pc' = "spin"
            /\ UNCHANGED << CURRENT_PID, memVars, k, frame, regs, derefs, last, args_pt >>
       ELSE LET proc      == table[k.slot]
                needed    == n + 8 + k.a4 * 16 + 8
                map_size  == ((needed + PAGE_SIZE - 1) \div PAGE_SIZE) * PAGE_SIZE
                args_base == proc.code_base + (proc.stack_base - proc.code_base) \div 2
                mp        == map_page(bitmap, next_hint, user_map, args_base, map_size)
                entry     == proc.code_base + proc.entry_point
            IN  /\ derefs' = derefs \cup {Deref(k.a3, k.a4)}
                /\ args_pt' = [args_pt EXCEPT ![k.slot] = << page_table >>]
                /\ bitmap' = mp.bitmap
                /\ next_hint' = mp.hint
                /\ user_map' = mp.umap
                /\ IF ~mp.ok
                   THEN /\ pc' = "panic"
                        /\ UNCHANGED << CURRENT_PID, cr3, k, frame, regs, last >>
                   ELSE /\ CURRENT_PID' = proc.id
                        /\ cr3' = proc.pt_frame
                        /\ frame' = [owner |-> proc.id, rip |-> "entry"]
                        /\ regs' = [owner |-> proc.id, rax |-> 0]
                        /\ k' = K0
                        /\ last' = [NoLast EXCEPT !.n = SPAWN, !.pid = k.pid, !.how = "exec"]
                        /\ pc' = IF IsMapped(mp.umap, PageOf(entry))
                                 THEN "run" ELSE "panic"

(***************************************************************************)
(* sys/process.rs: terminate, reached from EXIT                            *)
(***************************************************************************)
\* dispatch EXIT -> service::exit -> terminate, through the snapshot taken
\* under the read lock.
SysExit(code) ==
    /\ pc = "run"
    /\ CURRENT_PID # 0
    /\ UNCHANGED << procVars, memVars, irqVars, ptLock, frame, regs, ipcHist, nsys, spawner, held, irqs, captured, layout, args_pt, parked >>
    /\ derefs' = {}
    /\ last' = NoLast
    /\ IF ~CanRead
       THEN pc' = "spin" /\ UNCHANGED k
       ELSE /\ pc' = "term_unmap"
            /\ k' = [K0 EXCEPT !.pid = CURRENT_PID, !.code = code,
                               !.parent_id = table[CURRENT_PID].parent_id,
                               !.pt_frame = table[CURRENT_PID].pt_frame,
                               !.code_base = table[CURRENT_PID].code_base]

\* release_process_pages, with no lock held.
release_process_pages(bm, hint, um, base) ==
    LET u == unmap_page(bm, hint, um, base, MAX_PROC_MEM)
    IN  IF IsMapped(u.umap, USER_BASE)
        THEN unmap_page(u.bitmap, u.hint, u.umap, USER_BASE, MAX_PROC_MEM)
        ELSE u

TermRelease ==
    /\ pc = "term_unmap"
    /\ LET u == release_process_pages(bitmap, next_hint, user_map, k.code_base)
       IN  /\ bitmap' = u.bitmap
           /\ next_hint' = u.hint
           /\ user_map' = u.umap
    /\ pc' = "term_reset"
    /\ UNCHANGED << procVars, cr3, irqVars, ptLock, k, frame, regs, derefs, last,
                    ipcHist, nsys, spawner, held, irqs, captured, layout, args_pt, parked >>

TermResetLock ==
    /\ pc = "term_reset"
    /\ CanWrite
    /\ ptLock' = WriteLocked
    /\ pc' = "term_reset_locked"
    /\ UNCHANGED << procVars, memVars, irqVars, k, frame, regs, derefs, last,
                    ipcHist, nsys, spawner, held, irqs, captured, layout, args_pt, parked >>

\* TermReset that leaves the slot as it is.
TermReset_skip ==
    /\ pc = "term_reset_locked"
    /\ ptLock' = WriteUnlocked
    /\ pc' = "term_count"
    /\ UNCHANGED << table, sent, got, CURRENT_PID, NEXT_PID, ACTIVE_PROCS, memVars,
                    irqVars, k, frame, regs, derefs, last, nsys, spawner, held, irqs, captured, layout, args_pt, parked >>

\* table[pid] = Process::new(): the fresh entry takes the page-table root
\* that is active at this moment.
TermReset ==
    /\ pc = "term_reset_locked"
    /\ table' = [table EXCEPT ![k.pid] = ProcessNew(cr3)]
    /\ sent' = [sent EXCEPT ![k.pid] = << >>]
    /\ got' = [got EXCEPT ![k.pid] = << >>]
    /\ ptLock' = WriteUnlocked
    /\ pc' = "term_count"
    /\ UNCHANGED << CURRENT_PID, NEXT_PID, ACTIVE_PROCS, memVars, irqVars, k,
                    frame, regs, derefs, last, nsys, spawner, held, irqs, captured, layout, args_pt, parked >>

\* ExitCode::from(a1) as usize.
ExitCodeFrom(n) == IF n \in {0, 2, 3, 4, 5} THEN n ELSE 1

\* The rest of terminate (counter, set_pid, release of the root frame, the
\* parent's root into CR3), then syscall_handler's restore for EXIT.
TermFinish ==
    /\ pc = "term_count"
    /\ LET d      == deallocate_frame(bitmap, next_hint, k.pt_frame)
           parent == table[k.parent_id]
       IN  /\ ACTIVE_PROCS' = (ACTIVE_PROCS + WORD - 1) % WORD
           /\ CURRENT_PID' = k.parent_id
           /\ bitmap' = d.bitmap
           /\ next_hint' = d.hint
           /\ IF ~CanRead
              THEN /\ pc' = "spin"
                   /\ UNCHANGED << cr3, frame, regs >>
              ELSE /\ cr3' = parent.pt_frame
                   /\ frame' = IF parent.stack_frame # << >>
                               THEN parent.stack_frame[1] ELSE frame
                   /\ pc' = "exit_iret"
                   /\ regs' = [(IF parent.stack_frame # << >>
                                THEN parent.saved_regs ELSE regs)
                               EXCEPT !.rax = ExitCodeFrom(k.code)]
    /\ captured' = [captured EXCEPT ![k.pid] = << >>]
    /\ UNCHANGED << layout, args_pt, parked >>
    /\ UNCHANGED << table, NEXT_PID, user_map, irqVars, ptLock, k, derefs, last,
                    ipcHist, nsys, spawner, held, irqs >>

\* Where an iretq to the frame fr leads: a ring-0 frame saved inside a
\* syscall path points into the one kernel stack, which has been reused
\* since ("wild"); a user frame faults when its page is not mapped.
ResumePc(fr) ==
    IF fr.rip = "kernel" THEN "wild"
    ELSE IF fr.owner = 0 THEN "run"
    ELSE LET owner == table[fr.owner]
         IN  IF IsMapped(user_map, PageOf(owner.code_base + owner.entry_point))
             THEN "run" ELSE "panic"

\* syscall_entry's iretq after EXIT: the kernel shell goes on in ring 0; a
\* user process goes on where the frame points, inside the code of the
\* process that owns the frame, and faults when that page is not mapped.
ExitReturn ==
    /\ pc = "exit_iret"
    /\ pc' = ResumePc(frame)
    /\ k' = K0
    /\ last' = [NoLast EXCEPT !.n = EXIT, !.pid = k.pid,
                              !.ret = ExitCodeFrom(k.code), !.how = "exited"]
    /\ UNCHANGED << procVars, memVars, irqVars, ptLock, frame, regs, derefs,
                    ipcHist, nsys, spawner, held, irqs, captured, layout, args_pt, parked >>

(***************************************************************************)
(* sys/syscall/mod.rs: the single-buffer syscalls                          *)
(***************************************************************************)
\* OPEN, REMOVE (a1, a2) and READ, WRITE (a2, a3): one validated pair, then
\* the service call, whose result r does not concern this model.
SysBuffer(n, ptr, len, r) ==
    /\ pc = "run"
    /\ n \in {OPEN, REMOVE, READ, WRITE}
    /\ IF ~validate_user_ptr(ptr, len)
       THEN /\ ReturnV(n, CURRENT_PID, USIZE_MAX, "badptr", ptr, len)
            /\ derefs' = {}
       ELSE /\ ReturnV(n, CURRENT_PID, r, "done", ptr, len)
            /\ derefs' = {Deref(ptr, len)}
    /\ UNCHANGED << procVars, memVars, irqVars, ptLock, frame, ipcHist, nsys, spawner, held, irqs, captured, layout, args_pt, parked >>

\* size_of::<FileInfo>() and size_of::<(usize, PollEvent)>() as dispatch
\* uses them.
INFO_SIZE == 40
POLL_ENTRY_SIZE == 16

\* STAT: the path pair (a1, a2) and the output pointer a3.
SysStat(a1, a2, a3, r) ==
    /\ pc = "run"
    /\ IF ~validate_user_ptr(a1, a2) \/ ~validate_user_ptr(a3, INFO_SIZE)
       THEN /\ Return(STAT, CURRENT_PID, USIZE_MAX, "badptr")
            /\ derefs' = {}
       ELSE /\ Return(STAT, CURRENT_PID, r, "done")
            /\ derefs' = {Deref(a1, a2), Deref(a3, INFO_SIZE)}
    /\ UNCHANGED << procVars, memVars, irqVars, ptLock, frame, ipcHist, nsys, spawner, held, irqs, captured, layout, args_pt, parked >>

\* POLL: a list of a2 entries at a1.
SysPoll(a1, a2, r) ==
    /\ pc = "run"
    /\ IF ~validate_user_ptr(a1, SaturatingMul(a2, POLL_ENTRY_SIZE))
       THEN /\ Return(POLL, CURRENT_PID, USIZE_MAX, "badptr")
            /\ derefs' = {}
       ELSE /\ Return(POLL, CURRENT_PID, r, "done")
            /\ derefs' = {Deref(a1, SaturatingMul(a2, POLL_ENTRY_SIZE))}
    /\ UNCHANGED << procVars, memVars, irqVars, ptLock, frame, ipcHist, nsys, spawner, held, irqs, captured, layout, args_pt, parked >>

(***************************************************************************)
(* sys/process.rs, sys/syscall/service.rs: the handle table                *)
(***************************************************************************)
\* handles[h].clone(): indexing the array of MAX_HANDLES entries at or past
\* its end is a Rust bounds-check panic ("oob").
get_handle(hs, h) ==
    IF h >= MAX_HANDLES THEN "oob"
    ELSE IF h \in DOMAIN hs THEN hs[h] ELSE "none"

\* handles[h] = Some(res) and handles[h] = None, for h inside the array.
update_handle(hs, h, res) == [x \in DOMAIN hs \cup {h} |-> IF x = h THEN res ELSE hs[x]]
free_handle(hs, h) == [x \in DOMAIN hs \ {h} |-> hs[x]]

\* alloc_handle: the first i in 4 .. MAX_HANDLES - 1 that is None, or -1
\* when there is none.
FreeHandles(hs) == { i \in 4 .. (MAX_HANDLES - 1) : i \notin DOMAIN hs }
alloc_handle(hs) == IF FreeHandles(hs) = {} THEN 0 - 1 ELSE SetMin(FreeHandles(hs))

\* Resource::kind: 0 for a file, 1 for a device.
KindOf(res) == IF res = "file" THEN 0 ELSE 1

\* Resource::poll(PollEvent::Write).
PollWrite(res) == res # "null"

\* `as isize ... as usize` of -1.
MinusOne == USIZE_MAX

\* The service calls that go on to update_handle or free_handle, under the
\* write lock, once get_handle has found the handle bound.
HandleWrites(n, res) == n \in {READ, WRITE, CLOSE, DUP} /\ res \notin {"oob", "none"}

\* dispatch of READ, WRITE, CLOSE, DUP, KIND and POLL up to the service
\* call: h is the handle argument, dst the second argument of DUP.  READ
\* and WRITE come with a one-byte buffer and POLL with a one-entry list
\* (h, Write), both at USER_BASE.
SysHandle(n, h, dst) ==
    /\ pc = "run"
    /\ n \in {READ, WRITE, CLOSE, DUP, KIND, POLL}
    /\ pc' = "handle"
    /\ k' = [K0 EXCEPT !.pid = CURRENT_PID, !.kind = n, !.a3 = h, !.a4 = dst]
    /\ derefs' = IF n \in {READ, WRITE} THEN {Deref(USER_BASE, 1)}
                 ELSE IF n = POLL THEN {Deref(USER_BASE, POLL_ENTRY_SIZE)}
                 ELSE {}
    /\ last' = NoLast
    /\ UNCHANGED << procVars, memVars, irqVars, ptLock, frame, regs, ipcHist, nsys,
                    spawner, held, irqs, captured, layout, args_pt, parked >>

\* dispatch of OPEN on a valid path; found says whether the file exists.
SysOpen(found) ==
    /\ pc = "run"
    /\ pc' = "handle"
    /\ k' = [K0 EXCEPT !.pid = CURRENT_PID, !.kind = OPEN, !.a3 = IF found THEN 1 ELSE 0]
    /\ derefs' = {Deref(USER_BASE, 1)}
    /\ last' = NoLast
    /\ UNCHANGED << procVars, memVars, irqVars, ptLock, frame, regs, ipcHist, nsys,
                    spawner, held, irqs, captured, layout, args_pt, parked >>

\* The service call of OPEN, READ, WRITE, CLOSE, DUP, KIND and POLL on the
\* handle table of the current process; r is the number of bytes a READ
\* finds.
HandleOp(r) ==
    /\ pc = "handle"
    /\ UNCHANGED << CURRENT_PID, NEXT_PID, ACTIVE_PROCS, memVars, irqVars, ptLock,
                    frame, derefs, ipcHist, nsys, spawner, held, irqs, captured, layout, args_pt, parked >>
    /\ LET hs  == table[CURRENT_PID].handles
           n   == k.kind
           res == get_handle(hs, k.a3)
       IN  IF (IF n = OPEN THEN k.a3 = 1 /\ ~CanWrite
               ELSE ~CanRead \/ (HandleWrites(n, res) /\ ~CanWrite))
           THEN pc' = "spin" /\ UNCHANGED << table, k, regs, last >>
           ELSE IF n = OPEN
           THEN IF k.a3 = 1 /\ alloc_handle(hs) >= 0
                THEN /\ table' = [table EXCEPT ![CURRENT_PID].handles =
                                      update_handle(hs, alloc_handle(hs), "file")]
                     /\ Return(OPEN, k.pid, alloc_handle(hs), "done")
                ELSE /\ Return(OPEN, k.pid, MinusOne, "done")
                     /\ UNCHANGED table
           ELSE IF res = "oob" \/ (n = DUP /\ res # "none" /\ k.a4 >= MAX_HANDLES)
           THEN pc' = "panic" /\ UNCHANGED << table, k, regs, last >>
           ELSE IF res = "none"
           THEN /\ Return(n, k.pid, IF n = CLOSE THEN 0 ELSE MinusOne, "done")
                /\ UNCHANGED table
           ELSE CASE n = CLOSE ->
                       /\ table' = [table EXCEPT ![CURRENT_PID].handles =
                                        free_handle(hs, k.a3)]
                       /\ Return(CLOSE, k.pid, 0, "done")
                  [] n = DUP ->
                       /\ table' = [table EXCEPT ![CURRENT_PID].handles =
                                        update_handle(hs, k.a4, res)]
                       /\ Return(DUP, k.pid, 0, "done")
                  [] n = KIND ->
                       /\ Return(KIND, k.pid, KindOf(res), "done")
                       /\ UNCHANGED table
                  [] n = POLL ->
                       /\ Return(POLL, k.pid, IF PollWrite(res) THEN 0 ELSE MinusOne,
                                 "done")
                       /\ UNCHANGED table
                  [] n \in {READ, WRITE} ->
                       /\ table' = [table EXCEPT ![CURRENT_PID].handles =
                                        update_handle(hs, k.a3, res)]
                       /\ Return(n, k.pid, IF n = WRITE THEN 1 ELSE r, "done")

(***************************************************************************)
(* sys/idt.rs, sys/sched.rs: the timer interrupt                           *)
(***************************************************************************)
\* The scan of tick and schedule over candidate = (cur + i) % n_procs.
RECURSIVE Scan(_, _, _, _)
Scan(tbl, cur, n, i) ==
    IF i >= n THEN [r |-> "none", pid |-> 0]
    ELSE LET candidate == (cur + i) % n
         IN  IF candidate = 0 THEN Scan(tbl, cur, n, i + 1)
             ELSE IF candidate >= MAX_PROCS THEN [r |-> "oob", pid |-> candidate]
             ELSE IF tbl[candidate].block = Running
             THEN [r |-> "found", pid |-> candidate]
             ELSE Scan(tbl, cur, n, i + 1)

\* The interval test of tick and of schedule on the tick value t.
Considered(t) == t % SCHED_INTERVAL = 0

\* tick(): what it decides on the tick value t.  "return" when it comes back
\* to timer_handler, "switch" when it leaves through switch_to, "spin" when
\* it waits for the table lock, "panic" on an index past the table.
tick(t) ==
    IF t % SCHED_INTERVAL # 0 \/ NEXT_PID <= 1 THEN [r |-> "return", pid |-> 0]
    ELSE IF ~CanRead THEN [r |-> "spin", pid |-> 0]
    ELSE LET f == Scan(table, CURRENT_PID, NEXT_PID, 1)
         IN  IF f.r = "oob" THEN [r |-> "panic", pid |-> 0]
             ELSE IF f.r = "found" /\ f.pid # CURRENT_PID
             THEN [r |-> "switch", pid |-> f.pid]
             ELSE [r |-> "return", pid |-> 0]

\* switch_to that leaves the control register as it is.
switch_to_keepRoot(next_pid) ==
    LET p     == table[next_pid]
        entry == p.code_base + p.entry_point
    IN  /\ CURRENT_PID' = next_pid
        /\ cr3' = cr3
        /\ frame' = [owner |-> next_pid, rip |-> "entry"]
        /\ regs' = [owner |-> next_pid, rax |-> p.saved_regs.rax]
        /\ k' = K0
        /\ pc' = IF IsMapped(user_map, PageOf(entry)) THEN "run" ELSE "panic"
        /\ UNCHANGED << table, last >>

\* switch_to(next_pid): user mode at the entry point of next_pid, on its
\* root, with rax from its saved registers.  The interrupted kernel path is
\* dropped; the handler lock and the PIC's in-service state stay as they are.
switch_to(next_pid) ==
    LET p     == table[next_pid]
        entry == p.code_base + p.entry_point
    IN  /\ CURRENT_PID' = next_pid
        /\ cr3' = p.pt_frame
        /\ frame' = [owner |-> next_pid, rip |-> "entry"]
        /\ regs' = [owner |-> next_pid, rax |-> p.saved_regs.rax]
        /\ k' = K0
        /\ pc' = IF IsMapped(user_map, PageOf(entry)) THEN "run" ELSE "panic"
        /\ UNCHANGED << table, last >>

\* The frame and registers irq0 has pushed: the context of the process when
\* it runs its own code, a ring-0 context inside the syscall path when the
\* interrupt arrives there (syscalls run with interrupts enabled).
IrqFrame == IF pc = "run" THEN frame ELSE [owner |-> CURRENT_PID, rip |-> "kernel"]
IrqRegs == IF pc = "run" THEN regs ELSE [owner |-> CURRENT_PID, rax |-> 0]

\* What the ring-0 frame irq0 has pushed leads back to: the syscall path
\* the interrupt arrived in, which goes on behind the hlt it was waiting at.
IrqPath == IF pc = "run" THEN << >> ELSE << [pc |-> AfterHlt(pc), k |-> k] >>

\* schedule on the tick value t gets as far as save_stack_frame.
ScheduleSaves(t) == ~(t % SCHED_INTERVAL # 0 \/ NEXT_PID <= 1) /\ CanWrite

\* schedule(frame, regs) on the tick value t, back in timer_handler after
\* the end-of-interrupt.
schedule(t) ==
    IF t % SCHED_INTERVAL # 0 \/ NEXT_PID <= 1
    THEN /\ pc' = AfterHlt(pc)
         /\ UNCHANGED << table, CURRENT_PID, cr3, frame, regs, k, last >>
    ELSE IF ~CanWrite
    THEN /\ pc' = "spin"
         /\ UNCHANGED << table, CURRENT_PID, cr3, frame, regs, k, last >>
    ELSE LET saved == [table EXCEPT ![CURRENT_PID].stack_frame = << IrqFrame >>,
                                    ![CURRENT_PID].saved_regs = IrqRegs]
             f     == Scan(saved, CURRENT_PID, NEXT_PID, 1)
         IN  /\ table' = saved
             /\ UNCHANGED last
             /\ IF f.r = "oob"
                THEN pc' = "panic" /\ UNCHANGED << CURRENT_PID, cr3, frame, regs, k >>
                ELSE IF f.r = "found" /\ f.pid # CURRENT_PID
                THEN /\ CURRENT_PID' = f.pid
                     /\ regs' = saved[f.pid].saved_regs
                     /\ frame' = IF saved[f.pid].stack_frame # << >>
                                 THEN saved[f.pid].stack_frame[1] ELSE IrqFrame
                     /\ cr3' = saved[f.pid].pt_frame
                     /\ pc' = ResumePc(frame')
                     /\ k' = K0
                ELSE /\ pc' = AfterHlt(pc)
                     /\ UNCHANGED << CURRENT_PID, cr3, frame, regs, k >>

\* irq0 -> timer_handler: the registered handler (clk::on_tick -> tick)
\* under the handler lock, the end-of-interrupt, then schedule.
timer_handler ==
    /\ pc \notin {"panic", "spin", "wild"}
    /\ ~picBusy
    /\ ~irqLock
    /\ LET d == tick(TICK)
       IN  IF d.r = "return"
           THEN /\ TICK' = (TICK + 2) % SCHED_INTERVAL
                /\ schedule((TICK + 1) % SCHED_INTERVAL)
                /\ UNCHANGED << irqLock, picBusy >>
           ELSE /\ TICK' = (TICK + 1) % SCHED_INTERVAL
                /\ irqLock' = TRUE
                /\ picBusy' = TRUE
                /\ IF d.r = "switch"
                   THEN switch_to(d.pid)
                   ELSE /\ pc' = d.r
                        /\ UNCHANGED << table, CURRENT_PID, cr3, frame, regs, k, last >>
    /\ LET first  == Considered(TICK)
           second == tick(TICK).r = "return" /\ Considered((TICK + 1) % SCHED_INTERVAL)
       IN  irqs' = [since |-> IF first \/ second THEN 0 ELSE irqs.since + 1,
                    ndec  |-> (IF first THEN 1 ELSE 0) + (IF second THEN 1 ELSE 0),
                    via   |-> CASE tick(TICK).r = "switch" -> "switch_to"
                                [] tick(TICK).r = "return" /\ pc' # "spin" -> "isr"
                                [] OTHER -> "none"]
    /\ parked' = IF tick(TICK).r = "return" /\ ScheduleSaves((TICK + 1) % SCHED_INTERVAL)
                  THEN [parked EXCEPT ![CURRENT_PID] = IrqPath]
                  ELSE parked
    /\ UNCHANGED << NEXT_PID, ACTIVE_PROCS, bitmap, next_hint, user_map, ptLock,
                    derefs, ipcHist, nsys, spawner, held, captured, layout, args_pt >>

(***************************************************************************)
(* The system: what user code and the hardware may do next                 *)
(***************************************************************************)
\* Steps the kernel takes inside SEND and RECV.
IpcStep ==
    \/ SendCheckLock
    \/ SendCheck
    \/ SendLock
    \/ SendTry
    \/ RecvLock
    \/ RecvTry

\* Steps the kernel takes inside SPAWN and EXIT, and the timer.
LifeStep ==
    \/ Create
    \/ \E n \in {0, 1} : Exec(n)
    \/ TermRelease
    \/ TermResetLock
    \/ TermReset
    \/ TermFinish
    \/ ExitReturn
    \/ timer_handler

KernelStep == IpcStep \/ LifeStep

\* One path that names a file and one that fails validation.
GoodPath == << USER_BASE, 1 >>
BadPath == << 0, 1 >>

\* Process lifecycle: programs that spawn and exit.
Files == { Absent, FlatBin(5) }

\* Creations stop at MAX_NEXT_PID; a spawn on a full table creates nothing.
MaySpawn == NEXT_PID < MAX_NEXT_PID \/ FreeSlots = {}

Next ==
    \/ \E file \in Files : MaySpawn /\ SysSpawn(GoodPath[1], GoodPath[2], 0, 0, file)
    \/ SysExit(0)
    \/ LifeStep

Spec == Init /\ [][Next]_vars

\* The syscall gate: every buffer-taking syscall, with pointers and lengths
\* around the edges of the user window and of the machine word.
UserPtrs == {0, USER_BASE, USER_END - MSG_SIZE, USER_END, USIZE_MAX}
UserLens == {0, 1, MSG_SIZE, USIZE_MAX}
ArgVecs == { << 0, 0 >>, << USER_BASE, 1 >>, << USER_END, 1 >> }

NextGate ==
    \/ \E n \in {OPEN, REMOVE, READ, WRITE}, ptr \in UserPtrs, len \in UserLens :
           SysBuffer(n, ptr, len, 0)
    \/ \E a1 \in UserPtrs, a2 \in UserLens, a3 \in UserPtrs : SysStat(a1, a2, a3, 0)
    \/ \E a1 \in UserPtrs, a2 \in UserLens : SysPoll(a1, a2, 0)
    \/ \E ptr \in UserPtrs, len \in UserLens : nsys = 0 /\ SysSend(0, 0, ptr, len, 0)
    \/ \E a1 \in UserPtrs : nsys = 0 /\ SysRecv(a1)
    \/ \E path \in {GoodPath, BadPath}, av \in ArgVecs, file \in {Absent, FlatBin(5)} :
           NEXT_PID = 1 /\ SysSpawn(path[1], path[2], av[1], av[2], file)
    \/ SysExit(0)
    \/ KernelStep

SpecGate == Init /\ [][NextGate]_vars

\* Message passing between the kernel shell and up to two processes.
Targets == {0, 1, 2, MAX_PROCS}
SendBufs == { << USER_BASE, 3 >>, << USER_BASE, MSG_SIZE >> }

MayIpc == nsys < MAX_IPC

NextIpc ==
    \/ \E t \in Targets, b \in SendBufs :
           MayIpc /\ SysSend(t, b[2] + 1, b[1], b[2], b[2])
    \/ MayIpc /\ SysRecv(USER_BASE)
    \/ NEXT_PID < 3 /\ SysSpawn(GoodPath[1], GoodPath[2], 0, 0, FlatBin(5))
    \/ SysExit(0)
    \/ KernelStep

SpecIpc == Init /\ [][NextIpc]_vars

(***************************************************************************)
(* Properties                                                              *)
(***************************************************************************)
\* C1: no syscall dereferences a user-supplied (ptr, len) pair that has not
\* passed user-pointer validation; this covers OPEN, STAT, REMOVE, READ,
\* WRITE, SEND, RECV, POLL and both the path and the argv pair of SPAWN.
C1_NoUnvalidatedDeref ==
    \A d \in derefs : validate_user_ptr(d.ptr, d.len)

\* C2 as stated: for every (ptr, len), len = 0 included, validation accepts
\* exactly when ptr + len does not overflow, ptr >= USER_BASE and
\* ptr + len <= USER_END.
InWindow(ptr, len) ==
    ptr + len <= USIZE_MAX /\ ptr >= USER_BASE /\ ptr + len <= USER_END

C2_AcceptsExactlyWindow ==
    (last.n \in {OPEN, REMOVE, READ, WRITE})
        => ((last.how = "done") <=> InWindow(last.ptr, last.len))

\* C2 amended: for len > 0 validation accepts exactly the pairs inside the
\* window without overflow; a pair with len = 0 is accepted for every ptr.
C2_AcceptsWindowOrEmpty ==
    (last.n \in {OPEN, REMOVE, READ, WRITE})
        => ((last.how = "done") <=> (last.len = 0 \/ InWindow(last.ptr, last.len)))

\* C2 witness: a zero-length buffer below the window was accepted.
C2_Witness ==
    last.n = READ /\ last.how = "done" /\ last.len = 0 /\ last.ptr = 0

\* What a receiver must see for a logged send: the sender, the kind, the
\* first min(len, MSG_PAYLOAD) bytes of the data and zeroes after them.
Expected(snd) ==
    [sender |-> snd.sender, kind |-> snd.kind,
     data |-> [i \in 1 .. MSG_PAYLOAD |->
                 IF i <= snd.len /\ i <= MSG_PAYLOAD THEN UserByte(snd.fill, i) ELSE 0]]

\* C3: a SEND(target = P, kind = K, data = B) that returned 0, followed by
\* RECV at P, yields the sender's pid, K and a 64-byte payload that starts
\* with the first min(|B|, 64) bytes of B and is zero after them; RECV
\* returns 0 and leaves P's mailbox empty.
C3_RecvYieldsWhatWasSent ==
    (last.n = RECV /\ last.how = "received")
        => /\ got[last.pid] # << >>
           /\ Len(got[last.pid]) <= Len(sent[last.pid])
           /\ got[last.pid][Len(got[last.pid])]
                  = Expected(sent[last.pid][Len(got[last.pid])])
           /\ last.ret = 0
           /\ table[last.pid].mailbox = << >>

\* C3 witness: a process received a message another process sent from a
\* buffer longer than the payload.
C3_Witness ==
    /\ last.n = RECV /\ last.how = "received"
    /\ got[last.pid] # << >>
    /\ got[last.pid][Len(got[last.pid])].sender # last.pid
    /\ sent[last.pid][Len(got[last.pid])].len > MSG_PAYLOAD

NonExistent(t) == t \notin Pids \/ (t # 0 /\ table[t].id = 0)

\* C5: SEND to a pid that is out of range or whose slot is free returns
\* usize::MAX at once: it never blocks, never changes the sender's block
\* state and never writes a mailbox.
C5_SendToNobodyFails ==
    [][(pc \in {"send_check", "send_check_locked"} /\ NonExistent(k.target))
          => /\ table' = table
             /\ pc' \notin {"send_loop", "send_locked", "send_hlt"}
             /\ (last' # last) => (last'.n = SEND /\ last'.ret = USIZE_MAX
                                     /\ regs'.rax = USIZE_MAX /\ pc' = "run")]_vars

\* C5 witness: a SEND came back with the error for a missing target.
C5_Witness == last.n = SEND /\ last.how = "notarget" /\ last.ret = USIZE_MAX

\* C6: when the target's mailbox stays full, send gives up after
\* RETRY_LIMIT retries, returns usize::MAX, leaves the target's mailbox
\* unchanged and the sender's block state Running.
C6_SendGivesUp ==
    [][/\ k'.retries <= RETRY_LIMIT
       /\ (pc = "send_locked" /\ table[k.target].mailbox # << >>
             /\ k.retries >= RETRY_LIMIT
             /\ pc' \notin {"send_locked", "spin", "panic"})
            => /\ pc' = "run"
               /\ last'.n = SEND /\ last'.pid = k.pid /\ last'.ret = USIZE_MAX
               /\ regs'.rax = USIZE_MAX
               /\ table'[k.target].mailbox = table[k.target].mailbox
               /\ table'[k.pid].block = Running
       /\ (last' # last /\ last'.how = "timeout") => k.retries = RETRY_LIMIT]_vars

\* C6 witness: a SEND came back after the last retry.
C6_Witness == last.n = SEND /\ last.how = "timeout" /\ last.ret = USIZE_MAX

\* C7: SEND is synchronous: send does not return success before the
\* target's recv has taken the message out of the mailbox.
C7_SendReturnsAfterRecv ==
    (last.n = SEND /\ last.how = "sent")
        => \A p \in Pids : Len(got[p]) = Len(sent[p])

C9_TerminateReleases ==
    [][(pc = "term_count" /\ pc' = "exit_iret")
          => /\ table'[k.pid].id = 0
             /\ ~bitmap'[k.pt_frame]
             /\ ACTIVE_PROCS >= 1
             /\ ACTIVE_PROCS' = ACTIVE_PROCS - 1]_vars

\* C9 witness: terminate has returned while other processes stay active.
C9_Witness ==
    /\ pc = "exit_iret"
    /\ table[k.pid].id = 0
    /\ ~bitmap[k.pt_frame]
    /\ ACTIVE_PROCS >= 1

\* C10: SPAWN when every slot 1 .. MAX_PROCS-1 is active returns ExecError
\* and mutates nothing: the process table, current_pid, the pid and
\* active-process counters and the frame allocator are unchanged.
SameKernelState ==
    /\ table' = table
    /\ CURRENT_PID' = CURRENT_PID
    /\ NEXT_PID' = NEXT_PID
    /\ ACTIVE_PROCS' = ACTIVE_PROCS
    /\ bitmap' = bitmap
    /\ next_hint' = next_hint

C10_FullTableSpawnChangesNothing ==
    [][/\ (pc = "run" /\ pc' = "create" /\ FreeSlots = {}) => SameKernelState
       /\ (pc = "create" /\ FreeSlots = {} /\ last' # last)
             => (SameKernelState /\ last'.n = SPAWN /\ last'.ret = ExecError)]_vars

\* Ordered delivery: the kernel shell and one process send distinct
\* messages to the kernel shell.
MAX_ORDER_IPC == 4

NextOrder ==
    \/ nsys < MAX_ORDER_IPC /\ SysSend(0, nsys + 1, USER_BASE, 3, nsys)
    \/ nsys < MAX_ORDER_IPC /\ SysRecv(USER_BASE)
    \/ NEXT_PID < 2 /\ SysSpawn(GoodPath[1], GoodPath[2], 0, 0, FlatBin(5))
    \/ SysExit(0)
    \/ KernelStep

SpecOrder == Init /\ [][NextOrder]_vars

(***************************************************************************)
(* Loading: what create does with the bytes of the file                    *)
(***************************************************************************)
\* An empty file, three bytes of the ELF magic, a wrong fourth byte, the
\* bare ELF magic, and a flat binary that loads.
ShortFile == RawBin(<< >>)
ThreeBytes == RawBin(<< 127, 69, 76 >>)
WrongMagic == RawBin(<< 127, 67, 72, 77, 0 >>)
MalformedElf == RawBin(ELF_MAGIC)
LoadFiles == { ShortFile, ThreeBytes, WrongMagic, MalformedElf, FlatBin(5) }

NextLoad ==
    \/ \E file \in LoadFiles :
           NEXT_PID < 2 /\ SysSpawn(GoodPath[1], GoodPath[2], 0, 0, file)
    \/ SysExit(0)
    \/ LifeStep

SpecLoad == Init /\ [][NextLoad]_vars

\* The files create recognises as neither ELF nor flat.
Unrecognised(bin) == bin.len <= 3 \/ bin.magic \notin {"ELF", "BIN"}

\* C11: a SPAWN of a file of three bytes or fewer, or of a file whose first
\* four bytes are neither magic number, never goes on to exec, leaves the
\* process table and both counters as they were, and when it returns it
\* returns ExecError.
C11_UnknownMagicCreatesNothing ==
    [][(pc = "create" /\ Unrecognised(k.bin))
         => /\ pc' # "exec"
            /\ table' = table
            /\ NEXT_PID' = NEXT_PID
            /\ ACTIVE_PROCS' = ACTIVE_PROCS
            /\ (last' # last => (last'.n = SPAWN /\ last'.ret = ExecError))]_vars

C11_Witness ==
    /\ pc = "run"
    /\ last.n = SPAWN
    /\ last.how = "noload"
    /\ last.ret = ExecError
    /\ NEXT_PID = 1

\* C12: a SPAWN of a file that starts with the ELF magic and cannot be parsed
\* as an ELF file never goes on to exec, leaves the process table as it was,
\* and when it returns it returns ExecError.
C12_MalformedElfFails ==
    [][(pc = "create" /\ k.bin.magic = "ELF" /\ ~k.bin.parsed)
         => /\ pc' # "exec"
            /\ table' = table
            /\ (last' # last => (last'.n = SPAWN /\ last'.ret = ExecError))]_vars

(***************************************************************************)
(* Invariants of the process table                                         *)
(***************************************************************************)
\* The slots spawn has filled and terminate has not yet reset.
ActiveSlots == { i \in 1 .. (MAX_PROCS - 1) : table[i].id # 0 }

\* The k with base = USER_BASE + k * MAX_PROC_MEM, as a set (empty or one).
BaseIndex(base) == { s \in 0 .. (MAX_PROCS - 2) : base = USER_BASE + s * MAX_PROC_MEM }

\* C13: every active process has code_base = USER_BASE + k * MAX_PROC_MEM
\* for some k in 0 .. MAX_PROCS - 2, and two distinct active processes have
\* different k.
C13_CodeBasesDistinct ==
    /\ \A i \in ActiveSlots : BaseIndex(table[i].code_base) # {}
    /\ \A i, j \in ActiveSlots :
           i # j => BaseIndex(table[i].code_base) # BaseIndex(table[j].code_base)

\* All seven bases are in use at once.
C13_Witness ==
    /\ Cardinality(ActiveSlots) = MAX_PROCS - 1
    /\ { table[i].code_base : i \in ActiveSlots } =
           { USER_BASE + s * MAX_PROC_MEM : s \in 0 .. (MAX_PROCS - 2) }

\* C14: the table has MAX_PROCS slots; slot 0 is the kernel process and no
\* spawn has ever filled it; every slot i > 0 has id 0 (free) or id i.
C14_SlotsWellFormed ==
    /\ DOMAIN table = 0 .. (MAX_PROCS - 1)
    /\ table[0].id = 0
    /\ table[0].parent_id = 0
    /\ table[0].code_base = 0
    /\ spawner[0] = 0 - 1
    /\ (pc = "exec" => k.slot # 0)
    /\ \A i \in 1 .. (MAX_PROCS - 1) : table[i].id \in {0, i}

\* Creation has run MAX_NEXT_PID - 1 times, some slot is active and some
\* slot is free again.
C14_Witness ==
    /\ NEXT_PID = MAX_NEXT_PID
    /\ \E i \in 1 .. (MAX_PROCS - 1) : table[i].id = i
    /\ \E j \in 1 .. (MAX_PROCS - 1) : table[j].id = 0 /\ spawner[j] # 0 - 1

(***************************************************************************)
(* sys/mem/bitmap.rs: the frame allocator on its own                       *)
(***************************************************************************)
\* The allocator is exercised near exhaustion: the boot path holds every
\* frame but the last ALLOC_WINDOW.
ALLOC_WINDOW == 5
AllocBase == N_FRAMES - ALLOC_WINDOW

\* with_frame_allocator(|a| a.allocate_frame()): the caller keeps the frame.
AllocFrame ==
    /\ pc = "run"
    /\ LET a == allocate_frame(bitmap, next_hint)
       IN  /\ bitmap' = a.bitmap
           /\ next_hint' = a.hint
           /\ held' = IF a.ok THEN held \cup {a.frame} ELSE held
           /\ last' = [NoLast EXCEPT !.ret = IF a.ok THEN a.frame ELSE USIZE_MAX,
                                     !.how = IF a.ok /\ a.frame \in held
                                             THEN "again" ELSE "alloc"]
    /\ UNCHANGED << procVars, cr3, user_map, irqVars, ptLock, pc, k, frame, regs,
                    derefs, ipcHist, nsys, spawner, irqs, captured, layout, args_pt, parked >>

\* with_frame_allocator(|a| a.deallocate_frame(f)) for any frame number f:
\* one that is held, one that is free, one outside every region.
FreeFrame(f) ==
    /\ pc = "run"
    /\ LET d == deallocate_frame(bitmap, next_hint, f)
       IN  /\ bitmap' = d.bitmap
           /\ next_hint' = d.hint
    /\ held' = held \ {f}
    /\ last' = [NoLast EXCEPT !.ret = f, !.how = "free"]
    /\ UNCHANGED << procVars, cr3, user_map, irqVars, ptLock, pc, k, frame, regs,
                    derefs, ipcHist, nsys, spawner, irqs, captured, layout, args_pt, parked >>

NextAlloc ==
    \/ AllocFrame
    \/ \E f \in (AllocBase - 1) .. N_FRAMES : FreeFrame(f)

InitAlloc == InitKernel /\ InitFrames(AllocBase)

SpecAlloc == InitAlloc /\ [][NextAlloc]_vars

\* C15: the frames handed out and not yet returned are exactly the frames
\* whose bit is set, and allocate_frame never returns a frame that is
\* still handed out.
C15_BitmapMatchesHeld ==
    /\ held = { f \in Frames : bitmap[f] }
    /\ last.how # "again"

\* Every frame was handed out, the lowest frame of the window was returned,
\* and the next allocation has handed it out again: the allocator is full.
C15_Witness ==
    /\ last.how = "alloc"
    /\ last.ret = AllocBase
    /\ next_hint = AllocBase + 1
    /\ \A f \in Frames : bitmap[f]

(***************************************************************************)
(* Mailbox and block state                                                 *)
(***************************************************************************)
\* C16 as stated: every process has an empty mailbox or is Running.
C16_MailboxImpliesRunning ==
    \A p \in Pids : table[p].mailbox = << >> \/ table[p].block = Running

\* C16, amended: a process whose mailbox holds a message is Running or
\* WaitingSend, never WaitingRecv.
C16_MailboxExcludesWaitingRecv ==
    \A p \in Pids : table[p].mailbox # << >> => table[p].block # WaitingRecv

\* A process with a message in its own mailbox is blocked in a send to a
\* full mailbox.
C16_Witness ==
    \E p \in Pids :
        /\ table[p].mailbox # << >>
        /\ table[p].block \in { WaitingSend(t) : t \in Pids }

(***************************************************************************)
(* Context changes                                                         *)
(***************************************************************************)
\* C17: in every state between the steps of the model, and so after every
\* scheduler switch, every entry of spawn into a child and every return of
\* terminate to the parent, the root in the control register is the
\* pt_frame of the slot CURRENT_PID names.
C17_RootMatchesCurrent ==
    cr3 = table[CURRENT_PID].pt_frame

\* All three context changes have happened: a child was entered, an EXIT
\* returned to its parent, and the scheduler has then switched to a process
\* on a root of its own.
C17_Witness ==
    /\ picBusy
    /\ pc = "run"
    /\ CURRENT_PID # 0
    /\ cr3 # KERNEL_PT
    /\ last.how = "exited"

(***************************************************************************)
(* Handles                                                                 *)
(***************************************************************************)
\* A process may hold MAX_BOUND handles at a time in this specification.
MAX_BOUND == 5
HandleArgs == {0, 3, 4, MAX_HANDLES}
DupArgs == { << 4, 0 >>, << 0, 4 >>, << 0, MAX_HANDLES >>, << MAX_HANDLES, 4 >> }

NextHandles ==
    \/ \E n \in {READ, WRITE, CLOSE, KIND, POLL}, h \in HandleArgs : SysHandle(n, h, 0)
    \/ \E d \in DupArgs : SysHandle(DUP, d[1], d[2])
    \/ \E found \in BOOLEAN :
           /\ Cardinality(DOMAIN table[CURRENT_PID].handles) < MAX_BOUND
           /\ SysOpen(found)
    \/ \E r \in {0, 1} : HandleOp(r)
    \/ NEXT_PID < 2 /\ SysSpawn(GoodPath[1], GoodPath[2], 0, 0, FlatBin(5))
    \/ SysExit(0)
    \/ Create
    \/ Exec(0)
    \/ TermRelease
    \/ TermResetLock
    \/ TermReset
    \/ TermFinish
    \/ ExitReturn

SpecHandles == Init /\ [][NextHandles]_vars

\* C18: in every process record handles 0, 1 and 2 are bound to the console
\* and handle 3 to the null device.
C18_StdHandlesBound ==
    \A p \in Pids :
        /\ \A h \in 0 .. 2 : get_handle(table[p].handles, h) = "console"
        /\ get_handle(table[p].handles, 3) = "null"

\* C19: a READ, WRITE, CLOSE, DUP, KIND or POLL that names a handle number
\* at or past MAX_HANDLES does not panic: it returns the error sentinel in
\* rax and leaves the process table as it was.
C19_BadHandleReturnsError ==
    [][(/\ pc = "handle"
        /\ k.kind \in {READ, WRITE, CLOSE, DUP, KIND, POLL}
        /\ (k.a3 >= MAX_HANDLES \/ (k.kind = DUP /\ k.a4 >= MAX_HANDLES)))
         => /\ pc' = "run"
            /\ regs'.rax = USIZE_MAX
            /\ table' = table]_vars

(***************************************************************************)
(* The scheduling interval                                                 *)
(***************************************************************************)
\* C20: a timer interrupt that considers a scheduling decision considers
\* exactly one, and comes exactly SCHED_INTERVAL interrupts after the
\* previous interrupt that considered one.
C20_DecisionEveryTenth ==
    [][(irqs' # irqs /\ irqs'.ndec > 0)
         => /\ irqs'.ndec = 1
            /\ (irqs.since >= 0 => irqs.since + 1 = SCHED_INTERVAL)]_vars

(***************************************************************************)
(* The scheduler                                                           *)
(***************************************************************************)
\* pic::init enables interrupts before clk::init registers tick (lib.rs:
\* 55-58).  A timer interrupt in between runs the no-op handler and then
\* schedule, which advances TICK by one: when tick is registered TICK may be
\* even or odd, and from then on every interrupt advances it by two.  With
\* an even TICK the interval test passes in tick, with an odd one in
\* schedule.
BootTicks == {0, 1}

InitSched == (\E t \in BootTicks : InitBoot(t)) /\ InitFrames(HEAP_FRAMES)

\* Creations stop at MAX_SCHED_PID; EXIT is issued by the code of a user
\* process, whatever CURRENT_PID says, never by the kernel shell, and is
\* followed while ACTIVE_PROCS has not wrapped below zero.
MAX_SCHED_PID == 3

NextSched ==
    \/ NEXT_PID < MAX_SCHED_PID /\ SysSpawn(GoodPath[1], GoodPath[2], 0, 0, FlatBin(5))
    \/ frame.owner # 0 /\ ACTIVE_PROCS \in 1..MAX_PROCS /\ SysExit(0)
    \/ LifeStep

SpecSched == InitSched /\ [][NextSched]_vars

\* The processes the scheduler may run: active slots in state Running.
Runnable == { p \in Pids \ {0} : table[p].id # 0 /\ table[p].block = Running }

\* The lowest index in S strictly above cur, wrapping to the lowest of S.
NextAfter(S, cur) ==
    IF { p \in S : p > cur } # {} THEN SetMin({ p \in S : p > cur }) ELSE SetMin(S)

\* A timer interrupt in which the scheduler changes the current process.
SchedulerSwitches == TICK' # TICK /\ CURRENT_PID' # CURRENT_PID

\* C21: when the scheduler switches, the target is the Running process with
\* the lowest index strictly greater than the current pid, wrapping within
\* the process slots; pid 0 and waiting processes are never chosen.
C21_TargetIsNextRunning ==
    [][SchedulerSwitches
         => /\ Runnable \ {CURRENT_PID} # {}
            /\ CURRENT_PID' = NextAfter(Runnable \ {CURRENT_PID}, CURRENT_PID)]_vars

\* C22: a scheduler switch away from a process stores the interrupt frame
\* and the register file of that process in its slot, and the process it
\* switches to resumes with the frame and the registers its slot holds.
C22_SwitchSavesAndResumes ==
    [][SchedulerSwitches
         => /\ table'[CURRENT_PID].stack_frame = << IrqFrame >>
            /\ table'[CURRENT_PID].saved_regs = IrqRegs
            /\ (table[CURRENT_PID'].stack_frame # << >>
                  => /\ frame' = table[CURRENT_PID'].stack_frame[1]
                     /\ regs' = table[CURRENT_PID'].saved_regs)]_vars

\* C23: the scheduler only ever switches to an active slot (id # 0); a free
\* slot is never selected, after any sequence of spawns and exits.
C23_TargetIsActive ==
    [][SchedulerSwitches => table[CURRENT_PID'].id # 0]_vars

\* C24: the scheduler never executes a return-from-interrupt of its own:
\* every switch rewrites the interrupt frame and the registers and returns
\* to timer_handler, whose stub executes the one iretq.
C24_SwitchReturnsThroughIsr ==
    [][SchedulerSwitches => irqs'.via = "isr"]_vars

\* C25: when the scheduler switches to a target that has no saved frame,
\* the interrupt frame becomes a fresh frame at the target's entry point;
\* the frame of the outgoing process is never left in place.
C25_FreshFrameForNewTarget ==
    [][(SchedulerSwitches /\ table[CURRENT_PID'].stack_frame = << >>)
         => frame' = [owner |-> CURRENT_PID', rip |-> "entry"]]_vars

\* terminate has returned to syscall_handler, which restores the parent.
ExitRestores == pc = "term_count" /\ pc' = "exit_iret"

\* C26: when a child spawned through SPAWN issues EXIT(code), the frame and
\* the registers restored for its parent are those captured at the entry of
\* that SPAWN, with rax replaced by the exit code, whatever timer
\* interrupts came in between.
C26_ExitRestoresSpawnContext ==
    [][(ExitRestores /\ captured[k.pid] # << >>)
         => /\ frame' = captured[k.pid][1].frame
            /\ regs' = [captured[k.pid][1].regs EXCEPT !.rax = ExitCodeFrom(k.code)]]_vars

(***************************************************************************)
(* The frame allocator: allocate_frame                                     *)
(***************************************************************************)
\* The tracked frames whose bit is clear.
ClearFrames == { f \in Frames : ~bitmap[f] }

\* The first of the frames in S in the cyclic order that starts at hint.
FirstFrom(S, hint) ==
    IF { f \in S : f >= hint % N_FRAMES } # {}
    THEN SetMin({ f \in S : f >= hint % N_FRAMES })
    ELSE SetMin(S)

\* C27: allocate_frame returns the first frame with a clear bit in the
\* cyclic order that starts at the hint and marks it used; it returns none,
\* leaving the bitmap unchanged, exactly when every tracked frame is in use.
C27_AllocateFirstClear ==
    [][(last' # last /\ last'.how \in {"alloc", "again"})
         => IF ClearFrames = {}
            THEN last'.ret = USIZE_MAX /\ bitmap' = bitmap
            ELSE /\ last'.ret = FirstFrom(ClearFrames, next_hint)
                 /\ bitmap' = [bitmap EXCEPT ![FirstFrom(ClearFrames, next_hint)] = TRUE]]_vars

\* allocate_frame has just returned none on a full bitmap, after a frame at
\* the hint was handed out and the scan had to start again at index 0.
C27_Witness ==
    /\ last.how = "alloc"
    /\ last.ret = USIZE_MAX
    /\ next_hint = N_FRAMES
    /\ ClearFrames = {}

(***************************************************************************)
(* The frame allocator: build                                              *)
(***************************************************************************)
\* Memory maps of one or two usable regions on page boundaries, sizes in
\* frames: bitmaps of 8 bytes up to more than a page, one of exactly a page.
RegionStarts == {0, 16}
FirstSizes == {1, 2, 63, 64, 65, 512, 513, 32704, 32705, 32768}
SecondSizes == {0, 1, 32767}
MapOf(s, n1, n2) ==
    LET r1 == [start |-> s * 4096, end |-> (s + n1) * 4096]
        r2 == [start |-> (s + n1 + 1) * 4096, end |-> (s + n1 + 1 + n2) * 4096]
    IN  IF n2 = 0 THEN << r1 >> ELSE << r1, r2 >>
MemoryMaps == { MapOf(s, n1, n2) : s \in RegionStarts, n1 \in FirstSizes, n2 \in SecondSizes }

\* mem::init: the allocator is built from the memory map.
Build ==
    /\ ~layout.built
    /\ layout' = build(layout.map)
    /\ UNCHANGED << procVars, memVars, irqVars, ptLock, pc, k, frame, regs, derefs,
                    last, ipcHist, nsys, spawner, held, irqs, captured, args_pt, parked >>

InitBuild ==
    /\ InitKernel
    /\ bitmap = [f \in Frames |-> FALSE]
    /\ next_hint = 0
    /\ held = {}
    /\ layout \in { Unbuilt(map) : map \in MemoryMaps }

NextBuild == Build

SpecBuild == InitBuild /\ [][NextBuild]_vars

\* The frames the allocator tracks, and the frames that hold bytes of its
\* bitmap.
TrackedFrames ==
    UNION { { layout.regions[i].first_frame + j : j \in 0 .. (layout.regions[i].frame_count - 1) }
            : i \in 1 .. Len(layout.regions) }
BitmapFrames ==
    IF layout.bitmap_bytes = 0 THEN {}
    ELSE (layout.bitmap_start \div 4096)
           .. ((layout.bitmap_start + layout.bitmap_bytes - 1) \div 4096)

\* C28: no frame that holds the allocator's bitmap is a tracked frame, and
\* in the region of the bitmap every tracked frame starts at or after the
\* end of the bitmap, for every bitmap size.
C28_BitmapFramesUntracked ==
    (layout.built /\ layout.placed)
        => /\ TrackedFrames \cap BitmapFrames = {}
           /\ \A f \in TrackedFrames :
                  f * 4096 >= layout.bitmap_start
                      => f * 4096 >= layout.bitmap_start + layout.bitmap_bytes

(***************************************************************************)
(* The process-table lock                                                  *)
(***************************************************************************)
\* C29: the process-table lock is free at every hlt inside send and recv
\* and while terminate unmaps the pages of the leaving process.
C29_LockFreeAtHltAndUnmap ==
    pc \in {"send_hlt", "recv_hlt", "term_unmap"} => ptLock = LockFree

(***************************************************************************)
(* sys/idt.rs: the page-fault handler                                      *)
(***************************************************************************)
\* on_page_fault for an access of the running code to addr, whose page has
\* no user mapping.  write is CAUSED_BY_WRITE of the error code; present
\* tells whether the page is mapped for the kernel alone (a protection
\* fault), in which case map_to fails after the frame has been taken.
on_page_fault(addr, write, present) ==
    /\ pc = "run"
    /\ ~IsMapped(user_map, PageOf(addr))
    /\ LET shadow == IF present
                     THEN user_map \cup {[va |-> PageOf(addr), frame |-> N_FRAMES]}
                     ELSE user_map
           r      == map_page(bitmap, next_hint, shadow, addr, 1)
       IN  IF write
           THEN /\ bitmap' = r.bitmap
                /\ next_hint' = r.hint
                /\ user_map' = IF r.ok THEN r.umap ELSE user_map
                /\ pc' = IF r.ok THEN "run" ELSE "panic"
           ELSE /\ pc' = "panic"
                /\ UNCHANGED << bitmap, next_hint, user_map >>
    /\ last' = [NoLast EXCEPT !.how = "fault", !.ptr = addr, !.pid = CURRENT_PID,
                              !.n = IF write THEN 1 ELSE 0]
    /\ UNCHANGED << procVars, cr3, irqVars, ptLock, k, frame, regs, derefs,
                    ipcHist, nsys, spawner, held, irqs, captured, layout, args_pt, parked >>

\* Addresses inside and above the window of user addresses; the kernel maps
\* nothing between the window and its heap (heap.rs:11).
FaultAddrs == { USER_BASE + PAGE_SIZE, USER_BASE + MAX_PROC_MEM, USER_END - 1,
                USER_END + PAGE_SIZE, USER_END + MAX_PROC_MEM }

\* Faults are followed while fewer than MAX_FAULT_FRAMES frames are in use.
MAX_FAULT_FRAMES == 8
MayFault == Cardinality({ f \in Frames : bitmap[f] }) < MAX_FAULT_FRAMES

NextFault ==
    \/ NEXT_PID < 2 /\ SysSpawn(GoodPath[1], GoodPath[2], 0, 0, FlatBin(5))
    \/ Create
    \/ \E n \in {0, 1} : Exec(n)
    \/ \E a \in FaultAddrs, w \in BOOLEAN, p \in BOOLEAN :
           MayFault /\ on_page_fault(a, w, p)

SpecFault == Init /\ [][NextFault]_vars

\* C30: the page-fault handler maps a page only for a write fault at an
\* address inside the window of user addresses; every other fault panics
\* and maps nothing.
C30_MapsOnlyUserWrites ==
    [][(last' # last /\ last'.how = "fault"
          /\ ~(last'.n = 1 /\ InWindow(last'.ptr, 1)))
         => pc' = "panic" /\ user_map' = user_map]_vars

(***************************************************************************)
(* The argument pages                                                      *)
(***************************************************************************)
\* exec has mapped the argument pages of the slot it enters.
ExecMapsArgs == pc = "exec" /\ args_pt' # args_pt

\* C31: during spawn the argument pages are mapped through the page table
\* rooted at the child's pt_frame, not through the page table of the
\* process that called spawn.
C31_ArgsMappedInChild ==
    [][ExecMapsArgs
         => /\ args_pt'[k.slot] = << table[k.slot].pt_frame >>
            /\ args_pt'[k.slot] # << table[k.pid].pt_frame >>]_vars

(***************************************************************************)
(* The pid counter and the scan of the scheduler                           *)
(***************************************************************************)
\* Spawn and exit cycles until NEXT_PID has passed the size of the table.
MAX_PID_COUNT == 9

NextCount ==
    \/ NEXT_PID < MAX_PID_COUNT /\ SysSpawn(GoodPath[1], GoodPath[2], 0, 0, FlatBin(5))
    \/ SysExit(0)
    \/ LifeStep

SpecCount == Init /\ [][NextCount]_vars

\* The scan of the scheduler reaches an index past the end of the table.
ScanOutOfBounds == Scan(table, CURRENT_PID, NEXT_PID, 1).r = "oob"

\* C32: the scheduler never indexes the process table out of bounds: in
\* every timer interrupt that makes a scheduling decision every candidate
\* index it inspects is below MAX_PROCS.
C32_ScanInBounds ==
    [][(TICK' # TICK /\ irqs'.ndec > 0 /\ pc' # "spin") => ~ScanOutOfBounds]_vars

(***************************************************************************)
(* The timer interrupt and the locks                                       *)
(***************************************************************************)
\* C33: no timer interrupt that arrives while a syscall holds the
\* process-table lock leaves the timer handler spinning on that lock.
C33_TimerNeverSpins ==
    [][TICK' # TICK => pc' # "spin"]_vars

\* C34: whenever the timer interrupt hands control to a process, by
\* returning or by switching, the lock on the table of IRQ handlers that
\* it took to call the tick callback has been released.
C34_HandlerLockReleased ==
    [][(TICK' # TICK /\ pc' \notin {"spin", "panic"}) => ~irqLock']_vars

(***************************************************************************)
(* Progress of a waiting sender                                            *)
(***************************************************************************)
\* SEND and RECV with a CPU that keeps executing the code of send and recv
\* and a timer that keeps interrupting for as long as the PIC delivers
\* IRQ 0.  Nothing is assumed about the progress of spawn and exit code.
SpecIpcFair ==
    Init /\ [][NextIpc]_vars /\ WF_vars(IpcStep) /\ WF_vars(timer_handler)

\* The CPU is inside the code of spawn or exit.
InLifecycleCode ==
    pc \in {"create", "exec", "term_unmap", "term_reset", "term_reset_locked",
            "term_count", "exit_iret"}

\* C35: a sender marked WaitingSend eventually finishes its send call, with
\* 0 or with usize::MAX, also when other Running processes exist; the
\* behaviours in which the CPU goes on into spawn or exit code, whose
\* progress is not assumed, are left out.
C35_WaitingSenderFinishes ==
    \A p \in 0 .. 2 :
        (table[p].block.st = "WaitingSend")
            ~> (\/ last.n = SEND /\ last.pid = p /\ last.how \in {"sent", "timeout"}
                \/ InLifecycleCode)

(***************************************************************************)
(* The slot a message is deposited in                                      *)
(***************************************************************************)
\* An iretq to a ring-0 frame saved inside send, of a process whose own
\* registers come back with it: send may go on, on what is left of its
\* stack.
ResumeSend ==
    /\ pc = "wild"
    /\ frame.rip = "kernel"
    /\ regs.owner = frame.owner
    /\ parked[frame.owner] # << >>
    /\ parked[frame.owner][1].pc \in {"send_check", "send_loop"}
    /\ pc' = parked[frame.owner][1].pc
    /\ k' = parked[frame.owner][1].k
    /\ UNCHANGED << procVars, TICK, memVars, ptLock, irqLock, picBusy, frame, regs,
                    derefs, last, ipcHist, nsys, spawner, held, irqs, captured,
                    layout, args_pt, parked >>

\* The timer is registered after the first interrupt has been taken, so
\* that schedule makes the scheduling decisions.
InitWait == InitBoot(1) /\ InitFrames(HEAP_FRAMES)

\* Steps the kernel takes inside SEND.
SendStep ==
    \/ SendCheckLock
    \/ SendCheck
    \/ SendLock
    \/ SendTry

\* Two processes, of which the second sends to the first, and their exits.
MAX_WAIT_IPC == 2

NextWait ==
    \/ nsys < MAX_WAIT_IPC /\ CURRENT_PID = 2 /\ SysSend(1, 4, USER_BASE, 3, 3)
    \/ NEXT_PID < 3 /\ SysSpawn(GoodPath[1], GoodPath[2], 0, 0, FlatBin(5))
    \/ frame.owner # 0 /\ ACTIVE_PROCS \in 1 .. MAX_PROCS /\ SysExit(0)
    \/ SendStep
    \/ LifeStep
    \/ ResumeSend

SpecWait == InitWait /\ [][NextWait]_vars

\* The step of send that stores the message in the target's mailbox.
SendDeposits == pc = "send_locked" /\ sent' # sent

TerminateSetsPid == pc = "term_count" /\ ACTIVE_PROCS' # ACTIVE_PROCS

\* C37: after terminate, CURRENT_PID is 0 or names an active slot, also
\* when the parent of the terminated process has terminated before it.
C37_CurrentIsActiveAfterExit ==
    [][TerminateSetsPid => CURRENT_PID' \notin FreeSlots']_vars

(***************************************************************************)
(* The frames of a spawn that fails                                        *)
(***************************************************************************)
\* create returns Err from the load, after it has allocated the frame of
\* the new page table.
CreateFailsInLoad == pc = "create" /\ last' # last /\ last'.how = "noload"

\* C38: a create that fails in the load leaves the set of allocated frames
\* as it was before the call.
C38_FailedSpawnKeepsFrames ==
    [][CreateFailsInLoad => bitmap' = bitmap]_vars

(***************************************************************************)
(* The range a syscall accesses behind a validated pointer                 *)
(***************************************************************************)
\* READ and WRITE from the kernel shell and from two processes, whose code
\* bases differ, on buffers at both ends of the user window.
ResolvePtrs == {USER_BASE, USER_BASE + MAX_PROC_MEM, USER_END - MSG_SIZE}
ResolveLens == {1, MSG_SIZE}

NextResolve ==
    \/ \E n \in {READ, WRITE}, ptr \in ResolvePtrs, len \in ResolveLens :
           SysBuffer(n, ptr, len, 0)
    \/ NEXT_PID < 3 /\ SysSpawn(GoodPath[1], GoodPath[2], 0, 0, FlatBin(5))
    \/ SysExit(0)
    \/ LifeStep

SpecResolve == Init /\ [][NextResolve]_vars

\* C39: the bytes a syscall accesses behind a pair that passed validation
\* are the bytes of the pair itself, and they lie inside the user window,
\* whatever the code base of the caller.
C39_AccessIsValidatedRange ==
    \A d \in derefs :
        (validate_user_ptr(d.ptr, d.len) /\ d.len > 0)
            => /\ d.addr = d.ptr
               /\ USER_BASE <= d.addr
               /\ d.addr + d.len <= USER_END

(***************************************************************************)
(* The pages an exit takes away                                            *)
(***************************************************************************)
\* The user pages mapped in the memory of the active processes other than p.
PagesOfOthers(p) ==
    { m \in user_map :
        \E q \in ActiveSlots \ {p} :
            /\ table[q].code_base <= m.va
            /\ m.va < table[q].code_base + MAX_PROC_MEM }

\* The step of terminate that releases the pages.
TerminateReleases == pc = "term_unmap" /\ pc' = "term_reset"

\* C40: terminate of P leaves the user pages of every other active process
\* mapped and their frames allocated, also those of the process at
\* USER_BASE.
C40_ExitKeepsOthersPages ==
    [][TerminateReleases
         => \A m \in PagesOfOthers(k.pid) : m \in user_map' /\ bitmap'[m.frame]]_vars

====
